---- MODULE Spec2Model ----
(***************************************************************************)
(* A model of the knowledge-storage MCP core: the schema registry and its  *)
(* validator (db/schema.py), the endpoint handlers that build Cypher text  *)
(* and parameter maps (api/entities.py, api/relationships.py,              *)
(* api/queries.py) and the graph store they talk to (db/connection.py).    *)
(***************************************************************************)
EXTENDS Integers, Sequences, FiniteSets, TLC

VARIABLES
    entity_types,        \* SchemaManager.entity_types: name -> definition
    relationship_types,  \* SchemaManager.relationship_types
    v,                   \* the validator call in progress (validate_*)
    nodes,               \* the store: entity id -> node (labels, properties)
    rels,                \* the store: the relationships
    pc,                  \* where the endpoint call in progress stands
    call,                \* its name, arguments and locals
    sent,                \* the store calls it has made so far, in order
    result,              \* the envelope it returned
    uuid_next,           \* uuid.uuid4() values handed out so far
    schema_dir,          \* the schemas directory: file name -> document
    boot,                \* SchemaManager.__init__: its position and history
    conn                 \* Neo4jConnection: _driver and the method in progress

(***************************************************************************)
(* Bounds of the model.                                                    *)
(***************************************************************************)
MaxPayload == 2          \* keys in a payload handed to the validator
MaxUuid == 2             \* uuid4 values generated in one run
MaxRels == 2             \* relationships held by the store

(***************************************************************************)
(* Python values as the validator sees them.  k is the runtime kind, s the *)
(* text of a str, n the number (bool: 0/1 as Python's int subclass; list   *)
(* and dict: the element count).                                           *)
(***************************************************************************)
StrVal(s) == [k |-> "string", s |-> s, n |-> 0]
NumVal(n) == [k |-> "number", s |-> "", n |-> n]
BoolVal(b) == [k |-> "boolean", s |-> "", n |-> IF b THEN 1 ELSE 0]
ArrVal(len) == [k |-> "array", s |-> "", n |-> len]
ObjVal(len) == [k |-> "object", s |-> "", n |-> len]

\* isinstance(prop_value, str)
IsStr(x) == x.k = "string"
\* isinstance(prop_value, (int, float)): bool is a subclass of int
IsNumber(x) == x.k \in {"number", "boolean"}

\* a == b in Python: True == 1, False == 0; otherwise same kind, same content
PyEq(a, b) ==
    IF IsNumber(a) /\ IsNumber(b) THEN a.n = b.n ELSE a = b

\* prop_value < bound / prop_value > bound raises TypeError unless numeric
CompareRaises(x) == ~IsNumber(x)

\* len(prop_value) raises TypeError for int, float and bool
LenRaises(x) == IsNumber(x)
PyLen(x) == IF IsStr(x) THEN Len(x.s) ELSE x.n

(***************************************************************************)
(* Dictionaries keep insertion order: a dict is a sequence of entries with *)
(* distinct keys.  Schema properties are [name, def] entries, payloads are *)
(* [key, val] entries.                                                     *)
(***************************************************************************)
P(name, def) == [name |-> name, def |-> def]
KV(key, val) == [key |-> key, val |-> val]

HasProp(d, name) == \E i \in 1..Len(d) : d[i].name = name
GetProp(d, name) == d[CHOOSE i \in 1..Len(d) : d[i].name = name].def
HasKey(p, key) == \E i \in 1..Len(p) : p[i].key = key
GetKey(p, key) == p[CHOOSE i \in 1..Len(p) : p[i].key = key].val
PropNames(d) == {d[i].name : i \in 1..Len(d)}
Keys(p) == {p[i].key : i \in 1..Len(p)}

\* dict.update(other): an existing key keeps its place and takes the new
\* value, a new key is appended
RECURSIVE DictUpdate(_, _)
DictUpdate(d, other) ==
    IF other = <<>> THEN d
    ELSE LET e == Head(other)
             d1 == IF HasProp(d, e.name)
                   THEN [i \in 1..Len(d) |-> IF d[i].name = e.name THEN e ELSE d[i]]
                   ELSE Append(d, e)
         IN DictUpdate(d1, Tail(other))

(***************************************************************************)
(* The registry documents.                                                 *)
(***************************************************************************)
\* the built-in entity types seeded when entity_types.json is absent
DefaultEntityTypes ==
    ("Entity" :> [properties |-> <<
            P("id", [type |-> "string", required |-> TRUE]),
            P("name", [type |-> "string", required |-> TRUE]),
            P("description", [type |-> "string", required |-> FALSE])>>])
    @@ ("Concept" :> [inherits |-> "Entity", properties |-> <<
            P("domain", [type |-> "string", required |-> TRUE]),
            P("tier", [type |-> "string",
                       enum |-> <<StrVal("L1"), StrVal("L2"), StrVal("L3")>>,
                       required |-> TRUE])>>])
    @@ ("Symbol" :> [inherits |-> "Entity", properties |-> <<
            P("notation", [type |-> "string", required |-> TRUE]),
            P("latex", [type |-> "string", required |-> FALSE]),
            P("context", [type |-> "string", required |-> TRUE])>>])

\* the built-in relationship types seeded when relationship_types.json is absent
DefaultRelationshipTypes ==
    ("REPRESENTS" :> [source_types |-> <<"Symbol">>, target_types |-> <<"Concept">>,
        properties |-> <<
            P("context", [type |-> "string", required |-> FALSE]),
            P("confidence", [type |-> "number", min |-> 0, max |-> 1,
                             required |-> FALSE])>>])
    @@ ("RELATES_TO" :> [source_types |-> <<"Concept">>, target_types |-> <<"Concept">>,
        properties |-> <<
            P("relationship_type", [type |-> "string", required |-> TRUE]),
            P("description", [type |-> "string", required |-> FALSE])>>])
    @@ ("APPEARS_IN" :> [source_types |-> <<"Symbol", "Concept">>,
        target_types |-> <<"Document">>,
        properties |-> <<
            P("location", [type |-> "string", required |-> FALSE]),
            P("context", [type |-> "string", required |-> FALSE])>>])

\* an entity_types.json that exists is loaded as it is: a document with a
\* derived type that redeclares an inherited property, a type that inherits
\* from itself, two types that inherit from each other and a type whose
\* parent is not in the document
LoadedEntityTypes ==
    ("Base" :> [properties |-> <<
            P("name", [type |-> "string", required |-> TRUE, minLength |-> 1]),
            P("rank", [type |-> "number", min |-> 0, max |-> 5,
                       required |-> FALSE])>>])
    @@ ("Child" :> [inherits |-> "Base", properties |-> <<
            P("rank", [type |-> "string", maxLength |-> 4, required |-> TRUE]),
            P("domain", [type |-> "string", required |-> FALSE])>>])
    @@ ("Loop" :> [inherits |-> "Loop", properties |-> <<
            P("name", [type |-> "string", required |-> TRUE])>>])
    @@ ("PingA" :> [inherits |-> "PingB", properties |-> <<
            P("name", [type |-> "string", required |-> TRUE])>>])
    @@ ("PingB" :> [inherits |-> "PingA", properties |-> <<
            P("rank", [type |-> "number", required |-> FALSE])>>])
    @@ ("Orphan" :> [inherits |-> "Ghost", properties |-> <<
            P("name", [type |-> "string", required |-> FALSE])>>])

\* a relationship_types.json that exists: a type without endpoint lists and
\* with length, enum and boolean constraints
LoadedRelationshipTypes ==
    ("LINKS" :> [properties |-> <<
            P("label", [type |-> "string", minLength |-> 1, maxLength |-> 4,
                        required |-> TRUE]),
            P("confidence", [type |-> "number", min |-> 0, required |-> FALSE]),
            P("context", [type |-> "boolean", required |-> FALSE])>>])
    @@ ("RATES" :> [source_types |-> <<"Child">>, target_types |-> <<"Base", "Child">>,
        properties |-> <<
            P("confidence", [type |-> "number",
                             enum |-> <<NumVal(1), NumVal(2)>>,
                             required |-> FALSE])>>])

\* SchemaManager.get_entity_type: dict.get, None when absent
HasEntityType(type_name) == type_name \in DOMAIN entity_types
get_entity_type(type_name) == entity_types[type_name]
\* SchemaManager.get_relationship_type
HasRelationshipType(type_name) == type_name \in DOMAIN relationship_types
get_relationship_type(type_name) == relationship_types[type_name]

\* dict.get(key, default) on the optional keys of a definition
DefProperties(type_def) ==
    IF "properties" \in DOMAIN type_def THEN type_def.properties ELSE <<>>
DefRequired(prop_def) ==
    IF "required" \in DOMAIN prop_def THEN prop_def.required ELSE FALSE
DefType(prop_def) ==
    IF "type" \in DOMAIN prop_def THEN prop_def.type ELSE "None"

(***************************************************************************)
(* Validation messages: the message template and the property it names.    *)
(***************************************************************************)
Err(code, prop) == [code |-> code, prop |-> prop]

\* the outcome of a validator call: a returned (is_valid, errors) pair or an
\* exception leaving the function
Returned(errors) == [raised |-> FALSE, ok |-> errors = <<>>, errors |-> errors]
Raised == [raised |-> TRUE, ok |-> FALSE, errors |-> <<>>]

\* "Check property type": the isinstance chain
TypeErrors(prop_name, prop_value, prop_def) ==
    LET prop_type == DefType(prop_def) IN
    IF prop_type = "string" /\ ~IsStr(prop_value)
        THEN <<Err("should be a string", prop_name)>>
    ELSE IF prop_type = "number" /\ ~IsNumber(prop_value)
        THEN <<Err("should be a number", prop_name)>>
    ELSE IF prop_type = "boolean" /\ prop_value.k # "boolean"
        THEN <<Err("should be a boolean", prop_name)>>
    ELSE IF prop_type = "array" /\ prop_value.k # "array"
        THEN <<Err("should be an array", prop_name)>>
    ELSE IF prop_type = "object" /\ prop_value.k # "object"
        THEN <<Err("should be an object", prop_name)>>
    ELSE <<>>

\* "Check enum constraint": prop_value not in prop_def["enum"]
EnumErrors(prop_name, prop_value, prop_def) ==
    IF "enum" \in DOMAIN prop_def
       /\ ~\E i \in 1..Len(prop_def.enum) : PyEq(prop_value, prop_def.enum[i])
    THEN <<Err("should be one of", prop_name)>>
    ELSE <<>>

\* "Check min/max constraints for numbers": the comparison raises on a
\* value that is not a number; [raised, errors]
RangeErrors(prop_name, prop_value, prop_def) ==
    IF DefType(prop_def) # "number" THEN [raised |-> FALSE, errors |-> <<>>]
    ELSE IF "min" \in DOMAIN prop_def /\ CompareRaises(prop_value)
        THEN [raised |-> TRUE, errors |-> <<>>]
    ELSE LET lo == IF "min" \in DOMAIN prop_def /\ prop_value.n < prop_def.min
                   THEN <<Err("should be at least", prop_name)>> ELSE <<>>
         IN IF "max" \in DOMAIN prop_def /\ CompareRaises(prop_value)
            THEN [raised |-> TRUE, errors |-> lo]
            ELSE [raised |-> FALSE, errors |-> lo \o
                    (IF "max" \in DOMAIN prop_def /\ prop_value.n > prop_def.max
                     THEN <<Err("should be at most", prop_name)>> ELSE <<>>)]

\* "Check min/max length constraints for strings": len() raises on a number
LengthErrors(prop_name, prop_value, prop_def) ==
    IF DefType(prop_def) # "string" THEN [raised |-> FALSE, errors |-> <<>>]
    ELSE IF "minLength" \in DOMAIN prop_def /\ LenRaises(prop_value)
        THEN [raised |-> TRUE, errors |-> <<>>]
    ELSE LET lo == IF "minLength" \in DOMAIN prop_def
                      /\ PyLen(prop_value) < prop_def.minLength
                   THEN <<Err("should have at least", prop_name)>> ELSE <<>>
         IN IF "maxLength" \in DOMAIN prop_def /\ LenRaises(prop_value)
            THEN [raised |-> TRUE, errors |-> lo]
            ELSE [raised |-> FALSE, errors |-> lo \o
                    (IF "maxLength" \in DOMAIN prop_def
                        /\ PyLen(prop_value) > prop_def.maxLength
                     THEN <<Err("should have at most", prop_name)>> ELSE <<>>)]

\* one pass of the loop over properties.items(): the errors this key adds, or
\* the exception it raises
CheckProperty(all_properties, prop_name, prop_value) ==
    IF ~HasProp(all_properties, prop_name)
       \/ DOMAIN GetProp(all_properties, prop_name) = {}
    THEN [raised |-> FALSE, errors |-> <<Err("is not defined in schema", prop_name)>>]
    ELSE LET prop_def == GetProp(all_properties, prop_name)
             head == TypeErrors(prop_name, prop_value, prop_def)
                     \o EnumErrors(prop_name, prop_value, prop_def)
             range == RangeErrors(prop_name, prop_value, prop_def)
             length == LengthErrors(prop_name, prop_value, prop_def)
         IN IF range.raised THEN [raised |-> TRUE, errors |-> <<>>]
            ELSE IF length.raised THEN [raised |-> TRUE, errors |-> <<>>]
            ELSE [raised |-> FALSE,
                  errors |-> head \o range.errors \o length.errors]

\* "Check required properties": one message per required name that the
\* payload lacks, in the order of all_properties
RECURSIVE RequiredErrors(_, _)
RequiredErrors(all_properties, properties) ==
    IF all_properties = <<>> THEN <<>>
    ELSE LET e == Head(all_properties)
         IN (IF DefRequired(e.def) /\ ~HasKey(properties, e.name)
             THEN <<Err("is missing", e.name)>> ELSE <<>>)
            \o RequiredErrors(Tail(all_properties), properties)

\* "Check property types and constraints": the loop over properties.items(),
\* appending to errors until the payload is exhausted or a check raises
RECURSIVE CheckProperties(_, _, _)
CheckProperties(all_properties, items, errors) ==
    IF items = <<>> THEN Returned(errors)
    ELSE LET r == CheckProperty(all_properties, Head(items).key, Head(items).val)
         IN IF r.raised THEN Raised
            ELSE CheckProperties(all_properties, Tail(items), errors \o r.errors)

\* validate_entity after the inheritance loop: required check, then the
\* per-key checks, then "return len(errors) == 0, errors"
ValidateEntityChecks(all_properties, properties, errors) ==
    CheckProperties(all_properties, properties,
                    errors \o RequiredErrors(all_properties, properties))

\* validate_relationship, whole
validate_relationship_result(relationship_type, source_type, target_type, properties) ==
    IF ~HasRelationshipType(relationship_type)
    THEN Returned(<<Err("relationship type does not exist", relationship_type)>>)
    ELSE LET type_def == get_relationship_type(relationship_type)
             src == IF "source_types" \in DOMAIN type_def
                       /\ ~\E i \in 1..Len(type_def.source_types) :
                              type_def.source_types[i] = source_type
                    THEN <<Err("source type is not allowed", source_type)>>
                    ELSE <<>>
             tgt == IF "target_types" \in DOMAIN type_def
                       /\ ~\E i \in 1..Len(type_def.target_types) :
                              type_def.target_types[i] = target_type
                    THEN <<Err("target type is not allowed", target_type)>>
                    ELSE <<>>
             relationship_properties == DefProperties(type_def)
         IN CheckProperties(relationship_properties, properties,
                src \o tgt \o RequiredErrors(relationship_properties, properties))

(***************************************************************************)
(* The graph store and the text of the queries sent to it.                 *)
(* A query text is the sequence of the pieces the handler joins: the       *)
(* literal pieces of its source and, for every {placeholder} of an         *)
(* f-string or format() call, the formatted value together with the name   *)
(* of the argument or local the placeholder is filled from.                *)
(***************************************************************************)
storeVars == <<nodes, rels>>
callVars == <<pc, call, sent, result, uuid_next>>
sysVars == <<schema_dir, boot, conn>>

Lit(s) == [f |-> "lit", arg |-> "", s |-> s, n |-> 0]
FStr(arg, s) == [f |-> "str", arg |-> arg, s |-> s, n |-> 0]
FInt(arg, n) == [f |-> "int", arg |-> arg, s |-> "", n |-> n]

Query(text, params) == [text |-> text, params |-> params]
Range(seq) == {seq[i] : i \in 1..Len(seq)}

\* dict[key] = value on an insertion-ordered dict
DictSet(d, key, val) ==
    IF HasKey(d, key)
    THEN [i \in 1..Len(d) |-> IF d[i].key = key THEN KV(key, val) ELSE d[i]]
    ELSE Append(d, KV(key, val))

\* {**a, **b}
RECURSIVE DictMerge(_, _)
DictMerge(a, b) ==
    IF b = <<>> THEN a
    ELSE DictMerge(DictSet(a, Head(b).key, Head(b).val), Tail(b))

\* str(uuid.uuid4()): the n-th value generated
UuidOf(n) == <<"u1", "u2", "u3", "u4">>[n]

DEFAULT_PAGE_SIZE == 20
MAX_PAGE_SIZE == 100

NoCall == [name |-> ""]
NoResult == [success |-> FALSE, message |-> ""]

\* the entities other clients of the store hold in it
EntityIds == {"e1", "e2"}
ConceptNode(id) ==
    [labels |-> <<"Entity", "Concept">>,
     props |-> <<KV("id", StrVal(id)), KV("name", StrVal("Derivative")),
                 KV("domain", StrVal("calculus")),
                 KV("summary_l1", StrVal("slope")),
                 KV("summary_l2", StrVal("limit of a quotient"))>>]
SymbolNode(id) ==
    [labels |-> <<"Entity", "Symbol">>,
     props |-> <<KV("id", StrVal(id)), KV("name", StrVal("d/dx")),
                 KV("notation", StrVal("d/dx")),
                 KV("summary", StrVal("operator")),
                 KV("summary_l2", StrVal("Leibniz notation")),
                 KV("summary_l2_l1", StrVal("d by dx"))>>]

HasNode(id) == id \in DOMAIN nodes
HasLabel(id, label) == \E i \in 1..Len(nodes[id].labels) : nodes[id].labels[i] = label

\* a MATCH without ORDER BY yields its records in an order the store chooses
Orders(S) ==
    {p \in [1..Cardinality(S) -> S] : \A i, j \in 1..Cardinality(S) : i # j => p[i] # p[j]}
\* SKIP skip LIMIT limit
SkipLimit(rows, skip, limit) ==
    SubSeq(rows, skip + 1, IF Len(rows) < skip + limit THEN Len(rows) ELSE skip + limit)

\* the literal pieces of the query texts of api/relationships.py
RelText ==
    [SourceLabels |->
        <<Lit("MATCH (source:Entity {id: $source_id}) RETURN labels(source) AS source_labels")>>,
     TargetLabels |->
        <<Lit("MATCH (target:Entity {id: $target_id}) RETURN labels(target) AS target_labels")>>,
     CreateRel |->
        Lit("MATCH (source:Entity {id: $source_id}), (target:Entity {id: $target_id}) CREATE (source)-[r:"),
     MatchRel |->
        Lit("MATCH (source:Entity {id: $source_id})-[r:"),
     ReturnRel |->
        Lit("]->(target:Entity {id: $target_id}) RETURN r"),
     DeleteRel |->
        Lit("]->(target:Entity {id: $target_id}) DELETE r"),
     Outgoing |->
        Lit("MATCH (source:Entity {id: $entity_id})-[r"),
     AnySource |->
        Lit("MATCH (source:Entity)-[r"),
     AnyTarget |->
        Lit("]->(target:Entity)"),
     Incoming |->
        Lit("]->(target:Entity {id: $entity_id})"),
     CountRels |->
        Lit("RETURN count(*) AS count"),
     ShortestPath |->
        Lit("MATCH path = shortestPath((source:Entity {id: $source_id})-")]
\* ... of api/entities.py
EntText ==
    [MatchEntity |->
        Lit("MATCH (e:Entity"),
     CountEntities |->
        Lit("RETURN count(e) AS count"),
     ReturnFirst |->
        Lit("RETURN e LIMIT 1")]
\* ... of api/queries.py
QryText ==
    [EntityById |->
        <<Lit("MATCH (e:Entity {id: $id}) RETURN e")>>,
     EntityLabels |->
        <<Lit("MATCH (e:Entity {id: $id}) RETURN labels(e) AS labels")>>,
     Concept |->
        <<Lit("MATCH (c:Concept {id: $concept_id}) RETURN c")>>,
     Symbol |->
        <<Lit("MATCH (s:Symbol {id: $symbol_id}) RETURN s")>>,
     SymbolsOfConcept |->
        <<Lit("MATCH (s:Symbol)-[r:REPRESENTS]->(c:Concept {id: $concept_id}) RETURN s AS symbol, r AS relationship")>>,
     ConceptsOfSymbol |->
        <<Lit("MATCH (s:Symbol {id: $symbol_id})-[r:REPRESENTS]->(c:Concept) RETURN c AS concept, r AS relationship")>>,
     MatchLabels |->
        Lit("MATCH (e:"),
     AllShortestPaths |->
        Lit("MATCH path = allShortestPaths((source:Entity {id: $source_id})-"),
     CrossConcept |->
        Lit("MATCH (c:Concept {id: $concept_id})"),
     CrossAll |->
        Lit("MATCH (other:Concept)-[r:MAPPED_TO|EQUIVALENT_TO|DERIVED_FROM|APPLIES_TO]-(c)"),
     SourceDomain |->
        Lit("source.domain = $source_domain"),
     TargetDomain |->
        Lit("target.domain = $target_domain")]
Has(text, piece) == \E i \in 1..Len(text) : text[i] = piece
Last(text) == text[Len(text)]

\* ---- MATCH (e:Entity[:label]) [WHERE e.key = $param AND ...] ------------
RECURSIVE MatchFilters(_)
MatchFilters(text) ==
    IF Len(text) < 4 THEN <<>>
    ELSE IF text[1] = Lit("e.")
         THEN <<[key |-> text[2].s, param |-> text[4].s]>>
              \o MatchFilters(SubSeq(text, 5, Len(text)))
         ELSE MatchFilters(Tail(text))
MatchedEntities(text, params) ==
    {id \in DOMAIN nodes :
        /\ text[2] = Lit(":") => HasLabel(id, text[3].s)
        /\ \A i \in 1..Len(MatchFilters(text)) :
            LET flt == MatchFilters(text)[i]
            IN HasKey(nodes[id].props, flt.key)
               /\ GetKey(nodes[id].props, flt.key) = GetKey(params, flt.param)}
EntityRows(order) == [i \in 1..Len(order) |-> [e |-> nodes[order[i]].props]]
AnswersEntities(text, params) ==
    IF Last(text) = EntText.CountEntities
    THEN {<<[count |-> Cardinality(MatchedEntities(text, params))]>>}
    ELSE IF Last(text) = EntText.ReturnFirst
    THEN {SkipLimit(EntityRows(o), 0, 1) : o \in Orders(MatchedEntities(text, params))}
    ELSE {SkipLimit(EntityRows(o), text[Len(text) - 2].n, Last(text).n) :
            o \in Orders(MatchedEntities(text, params))}

\* ---- toLower(e.<prop>) CONTAINS toLower($term) --------------------------
\* the strings the store and the search terms are made of, lower-cased
ToLower(s) ==
    CASE s = "Derivative" -> "derivative" [] s = "DERIV" -> "deriv" [] OTHER -> s
Contains(s, term) ==
    \/ s = term
    \/ <<s, term>> \in {<<"derivative", "deriv">>, <<"calculus", "calc">>}
AnswersSearch(text, params) ==
    LET labels == {"Entity"} \cup {x.s : x \in {y \in Range(text) : y.arg = "entity_types"}}
        terms == {x.s : x \in {y \in Range(text) : y.arg = "term_param"}}
        found == {id \in DOMAIN nodes :
        /\ \A label \in labels : HasLabel(id, label)
        /\ \A term \in terms :
            \E prop \in {"name", "description", "notation", "domain"} :
                /\ HasKey(nodes[id].props, prop)
                /\ Contains(ToLower(GetKey(nodes[id].props, prop).s),
                            ToLower(GetKey(params, term).s))}
    IN {SkipLimit(EntityRows(o), 0, Last(text).n) : o \in Orders(found)}

\* ---- (source)-[r:type]->(target) ----------------------------------------
RelsMatching(source, type, target) ==
    {r \in rels : /\ source # "" => r.source = source
                  /\ type # "" => r.type = type
                  /\ target # "" => r.target = target}
AnswersRelationship(text, params) ==
    {[i \in 1..Len(o) |-> [r |-> o[i].props]] :
        o \in Orders(RelsMatching(GetKey(params, "source_id").s, text[2].s,
                                  GetKey(params, "target_id").s))}

AnswersRelationships(text, params) ==
    LET listed ==
            RelsMatching(
                IF Head(text) = RelText.Outgoing THEN GetKey(params, "entity_id").s ELSE "",
                IF text[2] = Lit(":") THEN text[3].s ELSE "",
                IF Has(text, RelText.Incoming) THEN GetKey(params, "entity_id").s ELSE "")
        ListRows(order) ==
            [i \in 1..Len(order) |->
                [source_id |-> order[i].source, relationship_type |-> order[i].type,
                 target_id |-> order[i].target, relationship |-> order[i].props]]
    IN IF Last(text) = RelText.CountRels
       THEN {<<[count |-> Cardinality(listed)]>>}
       ELSE {SkipLimit(ListRows(o), text[Len(text) - 2].n, Last(text).n) :
                o \in Orders(listed)}

\* ---- shortestPath / allShortestPaths ------------------------------------
OtherEnd(r, id) == IF r.source = id THEN r.target ELSE r.source
\* the walks of at most depth relationships, none used twice, from cur to target
RECURSIVE PathsFrom(_, _, _, _)
PathsFrom(cur, target, avail, depth) ==
    IF depth = 0 THEN {}
    ELSE UNION {
            (IF OtherEnd(r, cur) = target THEN {<<r>>} ELSE {})
            \cup {<<r>> \o p : p \in PathsFrom(OtherEnd(r, cur), target,
                                               avail \ {r}, depth - 1)}
            : r \in {x \in avail : x.source = cur \/ x.target = cur}}
RECURSIVE PathNodes(_, _)
PathNodes(path, from) ==
    IF path = <<>> THEN <<from>>
    ELSE <<from>> \o PathNodes(Tail(path), OtherEnd(Head(path), from))
PathRow(path, source) ==
    [path_length |-> Len(path), nodes |-> PathNodes(path, source),
     relationships |-> [i \in 1..Len(path) |-> path[i].id]]
AnswersPaths(text, params) ==
    LET source == GetKey(params, "source_id").s
        target == GetKey(params, "target_id").s
        types == {x.s : x \in {y \in Range(text) : y.arg = "relationship_types"}}
        max_depth == (CHOOSE x \in Range(text) : x.f = "int").n
        avail == IF types = {} THEN rels ELSE {r \in rels : r.type \in types}
        depth == IF max_depth < Cardinality(rels) THEN max_depth
                 ELSE Cardinality(rels)
        all == IF HasNode(source) /\ HasNode(target) /\ source # target
               THEN PathsFrom(source, target, avail, depth) ELSE {}
        found == {p \in all : \A q \in all : Len(p) <= Len(q)}
    IN IF found = {} THEN {<<>>}
       ELSE IF Head(text) = RelText.ShortestPath
       THEN {<<PathRow(p, source)>> : p \in found}
       ELSE {[i \in 1..Len(o) |-> PathRow(o[i], source)] : o \in Orders(found)}

\* ---- the concept / symbol lookups ---------------------------------------
IsA(id, label) == HasNode(id) /\ HasLabel(id, label)
AnswersOne(id, label, field) ==
    {IF IsA(id, label) THEN <<[x \in {field} |-> nodes[id].props]>> ELSE <<>>}
AnswersSymbolsOfConcept(params) ==
    LET found == {r \in RelsMatching("", "REPRESENTS", GetKey(params, "concept_id").s) :
                    IsA(r.source, "Symbol") /\ IsA(r.target, "Concept")}
    IN {[i \in 1..Len(o) |-> [symbol |-> nodes[o[i].source].props,
                              relationship |-> o[i].props]] : o \in Orders(found)}
AnswersConceptsOfSymbol(params) ==
    LET found == {r \in RelsMatching(GetKey(params, "symbol_id").s, "REPRESENTS", "") :
                    IsA(r.source, "Symbol") /\ IsA(r.target, "Concept")}
    IN {[i \in 1..Len(o) |-> [concept |-> nodes[o[i].target].props,
                              relationship |-> o[i].props]] : o \in Orders(found)}
AnswersCrossDomain(text, params) ==
    LET c == GetKey(params, "concept_id").s
        mapped == {"MAPPED_TO", "EQUIVALENT_TO", "DERIVED_FROM", "APPLIES_TO"}
        others == {r \in rels : /\ r.type \in mapped
                                /\ r.source = c \/ r.target = c
                                /\ IsA(OtherEnd(r, c), "Concept")}
        DomainIs(id, key) ==
            /\ HasKey(nodes[id].props, "domain")
            /\ GetKey(nodes[id].props, "domain") = GetKey(params, key)
        pairs == {pr \in rels \X rels :
                    /\ pr[1] # pr[2]
                    /\ pr[1].target = c /\ IsA(pr[1].source, "Concept")
                    /\ pr[2].source = c /\ IsA(pr[2].target, "Concept")
                    /\ Has(text, QryText.SourceDomain)
                         => DomainIs(pr[1].source, "source_domain")
                    /\ Has(text, QryText.TargetDomain)
                         => DomainIs(pr[2].target, "target_domain")}
    IN IF ~IsA(c, "Concept") THEN {<<>>}
       ELSE IF Has(text, QryText.CrossAll)
       THEN {[i \in 1..Len(o) |-> [other |-> nodes[OtherEnd(o[i], c)].props,
                                   r |-> o[i].props]] : o \in Orders(others)}
       ELSE {[i \in 1..Len(o) |->
                [source |-> nodes[o[i][1].source].props, r1 |-> o[i][1].props,
                 target |-> nodes[o[i][2].target].props, r2 |-> o[i][2].props]] :
             o \in Orders(pairs)}

\* the record lists the store may answer a read with
StoreAnswers(text, params) ==
    IF text = RelText.SourceLabels
    THEN {IF HasNode(GetKey(params, "source_id").s)
          THEN <<[labels |-> nodes[GetKey(params, "source_id").s].labels]>> ELSE <<>>}
    ELSE IF text = RelText.TargetLabels
    THEN {IF HasNode(GetKey(params, "target_id").s)
          THEN <<[labels |-> nodes[GetKey(params, "target_id").s].labels]>> ELSE <<>>}
    ELSE IF text = QryText.EntityById
    THEN {IF HasNode(GetKey(params, "id").s)
          THEN <<[e |-> nodes[GetKey(params, "id").s].props]>> ELSE <<>>}
    ELSE IF text = QryText.EntityLabels
    THEN {IF HasNode(GetKey(params, "id").s)
          THEN <<[labels |-> nodes[GetKey(params, "id").s].labels]>> ELSE <<>>}
    ELSE IF text = QryText.Concept
    THEN AnswersOne(GetKey(params, "concept_id").s, "Concept", "c")
    ELSE IF text = QryText.Symbol
    THEN AnswersOne(GetKey(params, "symbol_id").s, "Symbol", "s")
    ELSE IF text = QryText.SymbolsOfConcept THEN AnswersSymbolsOfConcept(params)
    ELSE IF text = QryText.ConceptsOfSymbol THEN AnswersConceptsOfSymbol(params)
    ELSE IF Head(text) = EntText.MatchEntity THEN AnswersEntities(text, params)
    ELSE IF Head(text) = QryText.MatchLabels THEN AnswersSearch(text, params)
    ELSE IF Head(text) = RelText.MatchRel THEN AnswersRelationship(text, params)
    ELSE IF Head(text) \in {RelText.Outgoing, RelText.AnySource}
    THEN AnswersRelationships(text, params)
    ELSE IF Head(text) \in {RelText.ShortestPath, QryText.AllShortestPaths}
    THEN AnswersPaths(text, params)
    ELSE IF Head(text) = QryText.CrossConcept THEN AnswersCrossDomain(text, params)
    ELSE {<<>>}

\* texts the store refuses: a UNION whose first part has no RETURN.  (A
\* shortest path whose two ends are the same node raises or yields no
\* record, as the store is configured: both are among the outcomes.)
StoreRejects(text, params) == Has(text, Lit("UNION"))

\* what a call of the store may come to: an exception of the driver, the
\* session or the statement, or an answer
Outcomes(q) ==
    {[raised |-> TRUE, rows |-> <<>>]}
    \cup (IF StoreRejects(q.text, q.params) THEN {}
          ELSE {[raised |-> FALSE, rows |-> a] : a \in StoreAnswers(q.text, q.params)})

\* the property keys a CREATE text binds: the {k: $k} pieces
RECURSIVE BoundKeys(_)
BoundKeys(text) ==
    IF text = <<>> THEN <<>>
    ELSE IF Head(text).f = "str" /\ Len(text) > 1 /\ text[2] = Lit(": $")
         THEN <<Head(text).s>> \o BoundKeys(Tail(text))
         ELSE BoundKeys(Tail(text))

\* the relationships of the store after a committed write
StoreApply(text, params) ==
    IF Head(text) = RelText.CreateRel
    THEN LET source == GetKey(params, "source_id").s
             target == GetKey(params, "target_id").s
             keys == BoundKeys(text)
         IN IF HasNode(source) /\ HasNode(target)
            THEN rels \cup {[id |-> GetKey(params, "id").s, type |-> text[2].s,
                            source |-> source, target |-> target,
                            props |-> [i \in 1..Len(keys) |->
                                         KV(keys[i], GetKey(params, keys[i]))]]}
            ELSE rels
    ELSE IF Head(text) = RelText.MatchRel /\ Last(text) = RelText.DeleteRel
    THEN rels \ RelsMatching(GetKey(params, "source_id").s, text[2].s,
                             GetKey(params, "target_id").s)
    ELSE rels

\* Neo4jConnection.execute_query
execute_query(q, outcome) ==
    [write |-> FALSE, text |-> q.text, params |-> q.params,
     raised |-> outcome.raised, rows |-> outcome.rows]

\* the driver call of a write that raises, if any ("run" stands for tx.run and
\* for reading its records)
WriteFaults == {"none", "begin_transaction", "run", "commit"}
DriverCall(op, raises) == [op |-> op, raises |-> raises]

\* a transaction() without its except clause: nothing is undone
TransactionUnguarded(fault) ==
    IF fault = "begin_transaction"
    THEN [calls |-> <<DriverCall("begin_transaction", TRUE)>>, raised |-> TRUE]
    ELSE IF fault = "run"
    THEN [calls |-> <<DriverCall("begin_transaction", FALSE), DriverCall("run", TRUE)>>,
          raised |-> TRUE]
    ELSE [calls |-> <<DriverCall("begin_transaction", FALSE), DriverCall("run", FALSE),
                      DriverCall("commit", fault = "commit")>>,
          raised |-> fault = "commit"]

\* Neo4jConnection.transaction around the body of execute_write_query, as the
\* calls made on the driver: begin_transaction stands before the try; the
\* body and the commit stand inside it; "except Exception" rolls back and
\* raises again
transaction(fault) ==
    IF fault = "begin_transaction"
    THEN [calls |-> <<DriverCall("begin_transaction", TRUE)>>, raised |-> TRUE]
    ELSE LET tx == <<DriverCall("begin_transaction", FALSE)>>
             body == Append(tx, DriverCall("run", fault = "run"))
             committed == IF fault = "run" THEN body
                          ELSE Append(body, DriverCall("commit", fault = "commit"))
         IN IF Last(committed).raises
            THEN [calls |-> Append(committed, DriverCall("rollback", FALSE)),
                  raised |-> TRUE]
            ELSE [calls |-> committed, raised |-> FALSE]

\* Neo4jConnection.execute_write_query: the transaction inside session(),
\* whose finally clause closes the session
execute_write_query(q, fault) ==
    LET tx == transaction(fault)
    IN [write |-> TRUE, text |-> q.text, params |-> q.params, raised |-> tx.raised,
        rows |-> <<>>,
        calls |-> <<DriverCall("session", FALSE)>> \o tx.calls
                    \o <<DriverCall("close", FALSE)>>]

\* Neo4jConnection.__init__ after its connect(): _driver is set, no method
\* is in progress.  op, was_closed, calls and outcome describe the last
\* method called: its name, whether a close() had returned with no connect()
\* called since, the calls it made on the driver, and how it ended;
\* sessions counts the sessions opened and not yet closed, drivers the
\* driver objects created and not closed.
Connected ==
    [driver |-> "driver", pc |-> "idle", op |-> "__init__", closed |-> FALSE,
     was_closed |-> FALSE, calls |-> <<>>, outcome |-> "returned", sessions |-> 0,
     drivers |-> 1]

\* a handler without the except clause: the exception leaves the handler
Escapes(message) == [exception |-> message]
\* "except Exception as e": the failure envelope of a handler
Failed(message) == [success |-> FALSE, message |-> message]

(***************************************************************************)
(* The schema documents.  A file of the schemas directory is absent or     *)
(* holds the JSON text json.dump wrote: objects, arrays, strings, numbers, *)
(* true and false.  The members of a "properties" object keep their order. *)
(***************************************************************************)
Absent == [exists |-> FALSE]
File(json) == [exists |-> TRUE, json |-> json]

\* json.dump(self.entity_types, f) / json.dump(self.relationship_types, f)
JsonDump(types) ==
    LET Str(s) == [j |-> "string", s |-> s]
        Value(x) == IF x.k = "string" THEN Str(x.s)
                    ELSE IF x.k = "boolean"
                    THEN [j |-> IF x.n = 1 THEN "true" ELSE "false"]
                    ELSE [j |-> "number", n |-> x.n]
        Def(d) == [key \in DOMAIN d |->
                     IF key = "type" THEN Str(d[key])
                     ELSE IF key = "required"
                     THEN [j |-> IF d[key] THEN "true" ELSE "false"]
                     ELSE IF key = "enum"
                     THEN [j |-> "array",
                           items |-> [i \in 1..Len(d[key]) |-> Value(d[key][i])]]
                     ELSE [j |-> "number", n |-> d[key]]]
        Type(t) == [key \in DOMAIN t |->
                      IF key = "properties"
                      THEN [j |-> "object",
                            members |-> [i \in 1..Len(t[key]) |->
                                           [key |-> t[key][i].name,
                                            val |-> [j |-> "object",
                                                     members |-> Def(t[key][i].def)]]]]
                      ELSE IF key = "inherits" THEN Str(t[key])
                      ELSE [j |-> "array",
                            items |-> [i \in 1..Len(t[key]) |-> Str(t[key][i])]]]
    IN [j |-> "object",
        members |-> [name \in DOMAIN types |->
                       [j |-> "object", members |-> Type(types[name])]]]

\* json.load(f): str, int, bool, list and dict by the kind of the JSON value
JsonLoad(json) ==
    LET Value(x) == IF x.j = "string" THEN StrVal(x.s)
                    ELSE IF x.j \in {"true", "false"} THEN BoolVal(x.j = "true")
                    ELSE NumVal(x.n)
        Def(m) == [key \in DOMAIN m |->
                     IF m[key].j = "string" THEN m[key].s
                     ELSE IF m[key].j \in {"true", "false"} THEN m[key].j = "true"
                     ELSE IF m[key].j = "array"
                     THEN [i \in 1..Len(m[key].items) |-> Value(m[key].items[i])]
                     ELSE m[key].n]
        Type(m) == [key \in DOMAIN m |->
                      IF m[key].j = "object"
                      THEN [i \in 1..Len(m[key].members) |->
                              P(m[key].members[i].key,
                                Def(m[key].members[i].val.members))]
                      ELSE IF m[key].j = "string" THEN m[key].s
                      ELSE [i \in 1..Len(m[key].items) |-> m[key].items[i].s]]
    IN [name \in DOMAIN json.members |-> Type(json.members[name].members)]

\* the schemas directory and the history of a manager constructed once from
\* the two registries
DirOf(e, r) == [entity_types |-> File(JsonDump(e)), relationship_types |-> File(JsonDump(r))]
Booted(e, r) ==
    [pc |-> "idle", constructed |-> 1, initial |-> DirOf(e, r),
     first |-> [entity_types |-> e, relationship_types |-> r]]

(***************************************************************************)
(* validate_entity as a process: the call, one step per pass of the        *)
(* "while current_type" loop, and the checks that follow the loop.         *)
(* v.visited records the types whose properties the loop has merged so far *)
(* (a history of the walk; the code keeps no such set).                    *)
(***************************************************************************)
VIdle == [pc |-> "idle", fn |-> "", type |-> "", source_type |-> "",
          target_type |-> "", properties |-> <<>>, all_properties |-> <<>>,
          current_type |-> "", errors |-> <<>>, visited |-> {},
          res |-> Returned(<<>>)]

\* payloads of at most MaxPayload entries with distinct keys
PayloadsOver(keys, values) ==
    UNION {
        {p \in [1..len -> {KV(key, val) : key \in keys, val \in values}] :
            \A i, j \in 1..len : i # j => p[i].key # p[j].key}
        : len \in 0..MaxPayload}

PayloadValues ==
    {StrVal("high"), StrVal(""), NumVal(-1), NumVal(1), BoolVal(TRUE),
     ArrVal(1), ObjVal(1)}
EndpointTypeNames == {"Symbol", "Concept", "Child"}

\* validate_entity: entry, up to "current_type = type_def"
validate_entity_call ==
    /\ v.pc = "idle"
    /\ \E entity_type \in DOMAIN entity_types \cup {"Nope"},
          properties \in PayloadsOver({"name", "rank", "domain", "bogus"}, PayloadValues) :
        v' = IF ~HasEntityType(entity_type)
             THEN [VIdle EXCEPT !.pc = "done", !.fn = "validate_entity",
                     !.type = entity_type, !.properties = properties,
                     !.res = Returned(<<Err("entity type does not exist", entity_type)>>)]
             ELSE [VIdle EXCEPT !.pc = "walk", !.fn = "validate_entity",
                     !.type = entity_type, !.properties = properties,
                     !.current_type = entity_type]
    /\ UNCHANGED <<entity_types, relationship_types, storeVars, callVars, sysVars>>

\* one pass of "while current_type": merge the current type's properties,
\* then move to the parent, leave the loop with an error when the parent is
\* not registered, or leave it when there is no parent
LoopPass(w) ==
    LET current_type == get_entity_type(w.current_type)
        all_properties == DictUpdate(w.all_properties, DefProperties(current_type))
        visited == w.visited \cup {w.current_type}
    IN IF "inherits" \in DOMAIN current_type
       THEN IF HasEntityType(current_type.inherits)
            THEN [w EXCEPT !.all_properties = all_properties,
                    !.visited = visited,
                    !.current_type = current_type.inherits]
            ELSE [w EXCEPT !.all_properties = all_properties,
                    !.visited = visited, !.pc = "check",
                    !.errors = Append(w.errors,
                        Err("parent type does not exist", current_type.inherits))]
       ELSE [w EXCEPT !.all_properties = all_properties,
               !.visited = visited, !.pc = "check"]

validate_entity_loop ==
    /\ v.pc = "walk"
    /\ v' = LoopPass(v)
    /\ UNCHANGED <<entity_types, relationship_types, storeVars, callVars, sysVars>>

\* the rest of validate_entity, from "Check required properties" to the return
validate_entity_check ==
    /\ v.pc = "check"
    /\ v' = [v EXCEPT !.pc = "done",
               !.res = ValidateEntityChecks(v.all_properties, v.properties, v.errors)]
    /\ UNCHANGED <<entity_types, relationship_types, storeVars, callVars, sysVars>>

\* validate_relationship, one call
validate_relationship ==
    /\ v.pc = "idle"
    /\ \E relationship_type \in DOMAIN relationship_types \cup {"NOPE"},
          source_type \in EndpointTypeNames, target_type \in EndpointTypeNames,
          properties \in PayloadsOver({"confidence", "context", "label", "bogus"},
                                     PayloadValues) :
        v' = [VIdle EXCEPT !.pc = "done", !.fn = "validate_relationship",
                !.type = relationship_type, !.source_type = source_type,
                !.target_type = target_type, !.properties = properties,
                !.res = validate_relationship_result(relationship_type,
                            source_type, target_type, properties)]
    /\ UNCHANGED <<entity_types, relationship_types, storeVars, callVars, sysVars>>

\* the caller takes the (is_valid, errors) pair; the validator is free again
validate_return ==
    /\ v.pc = "done"
    /\ v' = VIdle
    /\ UNCHANGED <<entity_types, relationship_types, storeVars, callVars, sysVars>>

vars == <<entity_types, relationship_types, v, nodes, rels, pc, call, sent,
          result, uuid_next, schema_dir, boot, conn>>

\* SchemaManager.__init__ / _load_schemas: each document is loaded when its
\* file exists and seeded with the defaults when it does not
InitValidate ==
    /\ entity_types \in {DefaultEntityTypes, LoadedEntityTypes}
    /\ relationship_types \in {DefaultRelationshipTypes, LoadedRelationshipTypes}
    /\ v = VIdle
    /\ nodes = <<>> /\ rels = {}
    /\ pc = "idle" /\ call = NoCall /\ sent = <<>> /\ result = NoResult
    /\ uuid_next = 0
    /\ schema_dir = DirOf(entity_types, relationship_types)
    /\ boot = Booted(entity_types, relationship_types)
    /\ conn = Connected

NextValidate ==
    \/ validate_entity_call
    \/ validate_entity_loop
    \/ validate_entity_check
    \/ validate_relationship
    \/ validate_return

SpecValidate == InitValidate /\ [][NextValidate]_vars

(***************************************************************************)
(* SchemaManager.__init__ as a process: the two fields are emptied, then   *)
(* _load_schemas treats the entity-type document and after it the          *)
(* relationship-type document.  boot.initial is the directory as the first *)
(* construction found it and boot.first what that construction produced    *)
(* (a history the code does not keep).                                     *)
(***************************************************************************)
MaxConstructions == 2    \* SchemaManager objects constructed in one run

\* the documents a deployment may hold before the first construction
EntityDocuments ==
    {Absent} \cup {File(JsonDump(t)) : t \in {DefaultEntityTypes, LoadedEntityTypes, <<>>}}
RelationshipDocuments ==
    {Absent} \cup {File(JsonDump(t)) :
                     t \in {DefaultRelationshipTypes, LoadedRelationshipTypes, <<>>}}

\* a path.exists() that finds no file
NeverExists(path) == FALSE
\* entity_types_path.exists() / relationship_types_path.exists()
Exists(path) == path.exists

\* "self.entity_types = {}; self.relationship_types = {}"
SchemaManager ==
    /\ boot.pc = "idle" /\ boot.constructed < MaxConstructions
    /\ entity_types' = <<>> /\ relationship_types' = <<>>
    /\ boot' = [boot EXCEPT !.pc = "entity_types"]
    /\ UNCHANGED <<schema_dir, v, storeVars, callVars, conn>>

\* _load_schemas, "Load entity types"
load_entity_types ==
    /\ boot.pc = "entity_types"
    /\ IF Exists(schema_dir.entity_types)
       THEN /\ entity_types' = JsonLoad(schema_dir.entity_types.json)
            /\ UNCHANGED schema_dir
       ELSE /\ entity_types' = DefaultEntityTypes
            /\ schema_dir' = [schema_dir EXCEPT
                                !.entity_types = File(JsonDump(DefaultEntityTypes))]
    /\ boot' = [boot EXCEPT !.pc = "relationship_types"]
    /\ UNCHANGED <<relationship_types, v, storeVars, callVars, conn>>

\* _load_schemas, "Load relationship types", and the end of __init__
load_relationship_types ==
    /\ boot.pc = "relationship_types"
    /\ IF Exists(schema_dir.relationship_types)
       THEN /\ relationship_types' = JsonLoad(schema_dir.relationship_types.json)
            /\ UNCHANGED schema_dir
       ELSE /\ relationship_types' = DefaultRelationshipTypes
            /\ schema_dir' = [schema_dir EXCEPT
                                !.relationship_types =
                                    File(JsonDump(DefaultRelationshipTypes))]
    /\ boot' = [boot EXCEPT !.pc = "idle", !.constructed = @ + 1,
                  !.first = IF boot.constructed = 0
                            THEN [entity_types |-> entity_types,
                                  relationship_types |-> relationship_types']
                            ELSE @]
    /\ UNCHANGED <<entity_types, v, storeVars, callVars, conn>>

InitBootstrap ==
    /\ schema_dir \in [entity_types : EntityDocuments,
                       relationship_types : RelationshipDocuments]
    /\ boot = [pc |-> "idle", constructed |-> 0, initial |-> schema_dir,
               first |-> [entity_types |-> <<>>, relationship_types |-> <<>>]]
    /\ conn = Connected
    /\ entity_types = <<>> /\ relationship_types = <<>>
    /\ v = VIdle
    /\ nodes = <<>> /\ rels = {}
    /\ pc = "idle" /\ call = NoCall /\ sent = <<>> /\ result = NoResult
    /\ uuid_next = 0

NextBootstrap ==
    \/ SchemaManager
    \/ load_entity_types
    \/ load_relationship_types

SpecBootstrap == InitBootstrap /\ [][NextBootstrap]_vars

(***************************************************************************)
(* Neo4jConnection as a process: one method at a time; a method that opens *)
(* a session takes a step to enter the block, one for its body and one to  *)
(* leave it.                                                               *)
(***************************************************************************)
MaxDrivers == 3          \* driver objects held open at one time
connVars == <<entity_types, relationship_types, v, storeVars, callVars, schema_dir, boot>>

\* a method begins: the record of the last one is replaced
Begin(op) ==
    [conn EXCEPT !.op = op, !.was_closed = conn.closed, !.calls = <<>>,
                 !.outcome = "pending"]

\* a close() that leaves the field as it is
DriverKept(driver) == driver
\* "self._driver = None"
DriverCleared(driver) == "None"

\* Neo4jConnection.connect: the driver is assigned, then verified by a query
connect ==
    /\ conn.pc = "idle" /\ conn.drivers < MaxDrivers
    /\ \E fault \in {"none", "driver", "run"} :
        conn' = IF fault = "driver"
                THEN [Begin("connect") EXCEPT
                        !.closed = FALSE, !.outcome = "raised",
                        !.calls = <<DriverCall("driver", TRUE)>>]
                ELSE [Begin("connect") EXCEPT
                        !.closed = FALSE, !.driver = "driver", !.drivers = @ + 1,
                        !.outcome = IF fault = "run" THEN "raised" ELSE "returned",
                        !.calls = <<DriverCall("driver", FALSE),
                                    DriverCall("session", FALSE),
                                    DriverCall("run", fault = "run"),
                                    DriverCall("close", FALSE)>>]
    /\ UNCHANGED connVars

\* Neo4jConnection.close
close ==
    /\ conn.pc = "idle"
    /\ IF conn.driver = "None"
       THEN conn' = [Begin("close") EXCEPT !.closed = TRUE, !.outcome = "returned"]
       ELSE \E raises \in BOOLEAN :
            conn' = IF raises
                    THEN [Begin("close") EXCEPT
                            !.outcome = "raised",
                            !.calls = <<DriverCall("driver.close", TRUE)>>]
                    ELSE [Begin("close") EXCEPT
                            !.driver = DriverCleared(conn.driver), !.closed = TRUE,
                            !.drivers = @ - 1,
                            !.outcome = "returned",
                            !.calls = <<DriverCall("driver.close", FALSE)>>]
    /\ UNCHANGED connVars

\* Neo4jConnection.is_connected
is_connected ==
    /\ conn.pc = "idle"
    /\ IF conn.driver = "None"
       THEN conn' = [Begin("is_connected") EXCEPT !.outcome = "False"]
       ELSE \E raises \in BOOLEAN :
            conn' = [Begin("is_connected") EXCEPT
                        !.outcome = IF raises THEN "False" ELSE "True",
                        !.calls = <<DriverCall("session", FALSE),
                                    DriverCall("run", raises),
                                    DriverCall("close", FALSE)>>]
    /\ UNCHANGED connVars

\* Neo4jConnection.session up to the yield, entered by a caller's with
\* statement, by transaction() or by one of the two execute methods
session ==
    /\ conn.pc = "idle"
    /\ \E op \in {"session", "transaction", "execute_query", "execute_write_query"} :
        IF conn.driver = "None"
        THEN conn' = [Begin(op) EXCEPT !.outcome = "raised"]
        ELSE \E raises \in BOOLEAN :
            conn' = IF raises
                    THEN [Begin(op) EXCEPT !.outcome = "raised",
                            !.calls = <<DriverCall("session", TRUE)>>]
                    ELSE [Begin(op) EXCEPT !.pc = "body",
                            !.sessions = @ + 1,
                            !.calls = <<DriverCall("session", FALSE)>>]
    /\ UNCHANGED connVars

\* the body of the with statement: the caller's block, session.run of
\* execute_query, or the transaction of execute_write_query
session_body ==
    /\ conn.pc = "body"
    /\ \E fault \in WriteFaults :
        /\ conn.op \in {"session", "execute_query"} => fault \in {"none", "run"}
        /\ conn' = [conn EXCEPT
                      !.pc = "exit",
                      !.outcome = IF fault = "none" THEN "returned" ELSE "raised",
                      !.calls = @ \o (IF conn.op = "session" THEN <<>>
                                      ELSE IF conn.op = "execute_query"
                                      THEN <<DriverCall("run", fault = "run")>>
                                      ELSE transaction(fault).calls)]
    /\ UNCHANGED connVars

\* "finally: session.close()"
session_exit ==
    /\ conn.pc = "exit"
    /\ conn' = [conn EXCEPT !.pc = "idle", !.sessions = @ - 1,
                  !.calls = Append(@, DriverCall("close", FALSE))]
    /\ UNCHANGED connVars

InitConnection ==
    /\ conn = Connected
    /\ entity_types = DefaultEntityTypes
    /\ relationship_types = DefaultRelationshipTypes
    /\ schema_dir = DirOf(entity_types, relationship_types)
    /\ boot = Booted(entity_types, relationship_types)
    /\ v = VIdle
    /\ nodes = <<>> /\ rels = {}
    /\ pc = "idle" /\ call = NoCall /\ sent = <<>> /\ result = NoResult
    /\ uuid_next = 0

NextConnection ==
    \/ connect
    \/ close
    \/ is_connected
    \/ session
    \/ session_body
    \/ session_exit

SpecConnection == InitConnection /\ [][NextConnection]_vars

(***************************************************************************)
(* The endpoint handlers.  One call is in progress at a time; a handler    *)
(* that calls the store more than once takes one step per store call, and  *)
(* other clients of the store act between the steps.  sent holds the store *)
(* calls of the call in progress (a history the handlers do not keep).     *)
(***************************************************************************)
regVars == <<entity_types, relationship_types, v>>

\* other clients of the same store: MERGE / DETACH DELETE of an entity, while
\* the server is idle or between two store calls of the call in progress
\* (after the last store call a change of the store cannot reach the result)
\* the entities they hold: "e1" is a concept or a symbol, "e2" a concept (a
\* handler takes either identifier at either end, so every pairing of a
\* concept with a concept or a symbol is reached)
EnvNodes(id) ==
    IF id = "e2" THEN {ConceptNode(id)} ELSE {ConceptNode(id), SymbolNode(id)}

EnvCreateEntity ==
    /\ pc # "done"
    /\ \E id \in EntityIds :
        /\ ~HasNode(id)
        /\ \E node \in EnvNodes(id) :
              nodes' = [i \in DOMAIN nodes \cup {id} |->
                            IF i = id THEN node ELSE nodes[i]]
    /\ UNCHANGED <<sysVars, regVars, rels, callVars>>

EnvDeleteEntity ==
    /\ pc # "done"
    /\ \E id \in DOMAIN nodes :
        /\ nodes' = [i \in DOMAIN nodes \ {id} |-> nodes[i]]
        /\ rels' = {r \in rels : r.source # id /\ r.target # id}
    /\ UNCHANGED <<sysVars, regVars, pc, call, sent, result, uuid_next>>

\* the handler returned: the server is ready for the next call
Return ==
    /\ pc = "done"
    /\ pc' = "idle" /\ call' = NoCall /\ sent' = <<>> /\ result' = NoResult
    /\ UNCHANGED <<sysVars, regVars, storeVars, uuid_next>>

\* ---- create_entity ------------------------------------------------------

create_entity ==
    /\ pc = "idle"
    /\ \E entity_type \in {"Concept", "Symbol", "Bogus"},
          properties \in
            {<<KV("name", StrVal("Derivative"))>>,
             <<KV("id", StrVal("e1")), KV("name", StrVal("Derivative")),
               KV("domain", StrVal("calculus")), KV("tier", StrVal("L1"))>>,
             <<KV("name", NumVal(1)), KV("bogus", StrVal("high"))>>},
          provenance \in BOOLEAN :
        LET generates == ~HasKey(properties, "id")
            with_id == IF generates
                       THEN DictSet(properties, "id", StrVal(UuidOf(uuid_next + 1)))
                       ELSE properties
        IN /\ generates => uuid_next < MaxUuid
           /\ uuid_next' = IF generates THEN uuid_next + 1 ELSE uuid_next
           /\ call' = [name |-> "create_entity", entity_type |-> entity_type,
                       properties |-> properties, provenance |-> provenance]
           /\ result' = [success |-> TRUE, message |-> "Entity created successfully",
                         entity_id |-> GetKey(with_id, "id").s,
                         entity_type |-> entity_type, properties |-> with_id]
    /\ pc' = "done"
    /\ UNCHANGED <<sysVars, regVars, storeVars, sent>>

\* ---- pagination, shared by list_entities and list_relationships ---------
PageArgs ==
    {[page |-> -1, page_size |-> 500], [page |-> 0, page_size |-> 1],
     [page |-> 1, page_size |-> 1], [page |-> 1, page_size |-> 0],
     [page |-> 0, page_size |-> 100], [page |-> 2, page_size |-> 101]}
\* a handler that uses the page size as it was given
PageSizeUnchecked(page_size) == page_size
\* metadata that rounds the number of pages down
PaginationFloor(page, page_size, total_count) ==
    LET total_pages == total_count \div page_size
    IN [page |-> page, page_size |-> page_size, total_count |-> total_count,
        total_pages |-> total_pages, has_next |-> page < total_pages - 1,
        has_prev |-> page > 0]
NormalPage(page) == IF page < 0 THEN 0 ELSE page
NormalPageSize(page_size) ==
    IF page_size <= 0 \/ page_size > MAX_PAGE_SIZE THEN DEFAULT_PAGE_SIZE ELSE page_size
TotalCount(count_result) == IF count_result # <<>> THEN count_result[1].count ELSE 0
Pagination(page, page_size, total_count) ==
    LET total_pages == IF total_count > 0
                       THEN (total_count + page_size - 1) \div page_size ELSE 0
    IN [page |-> page, page_size |-> page_size, total_count |-> total_count,
        total_pages |-> total_pages, has_next |-> page < total_pages - 1,
        has_prev |-> page > 0]

\* ---- list_entities / get_entity_by_properties ---------------------------
FilterTypes == {"", "Concept", "Bogus"}
FilterPayloads ==
    {<<>>, <<KV("bogus", StrVal("high"))>>,
     <<KV("name", StrVal("Derivative")), KV("domain", StrVal("calculus"))>>}
\* f"prop_{key}"
PropParam(key) ==
    CASE key = "name" -> "prop_name" [] key = "domain" -> "prop_domain"
      [] key = "bogus" -> "prop_bogus"

\* " AND ".join of the f"e.{key} = ${param_key}" clauses
RECURSIVE WhereClauses(_)
WhereClauses(properties) ==
    IF properties = <<>> THEN <<>>
    ELSE <<Lit("e."), FStr("properties.key", Head(properties).key), Lit(" = $"),
           FStr("param_key", PropParam(Head(properties).key))>>
         \o (IF Len(properties) > 1 THEN <<Lit(" AND ")>> ELSE <<>>)
         \o WhereClauses(Tail(properties))
\* query_parts before the RETURN
EntityQueryParts(entity_type, properties) ==
    <<EntText.MatchEntity>>
    \o (IF entity_type # "" THEN <<Lit(":"), FStr("entity_type", entity_type)>> ELSE <<>>)
    \o <<Lit(")")>>
    \o (IF properties # <<>> THEN <<Lit("WHERE")>> \o WhereClauses(properties) ELSE <<>>)
FilterParams(properties) ==
    [i \in 1..Len(properties) |-> KV(PropParam(properties[i].key), properties[i].val)]
QueryCountEntities(entity_type, properties) ==
    Query(EntityQueryParts(entity_type, properties) \o <<EntText.CountEntities>>,
          FilterParams(properties))
QueryListEntities(entity_type, properties, skip, page_size) ==
    Query(EntityQueryParts(entity_type, properties)
            \o <<Lit("RETURN e SKIP"), FInt("skip", skip),
                 Lit("LIMIT"), FInt("page_size", page_size)>>,
          FilterParams(properties))
QueryEntityByProperties(entity_type, properties) ==
    Query(EntityQueryParts(entity_type, properties) \o <<EntText.ReturnFirst>>,
          FilterParams(properties))

\* list_entities up to the count query
list_entities ==
    /\ pc = "idle"
    /\ \E entity_type \in FilterTypes, properties \in FilterPayloads,
          paging \in PageArgs :
        LET page == NormalPage(paging.page)
            page_size == NormalPageSize(paging.page_size)
            q == QueryCountEntities(entity_type, properties)
        IN \E o \in Outcomes(q) :
            LET r == execute_query(q, o)
            IN /\ call' = [name |-> "list_entities", entity_type |-> entity_type,
                           properties |-> properties, page_arg |-> paging.page,
                           page_size_arg |-> paging.page_size, page |-> page,
                           page_size |-> page_size, skip |-> page * page_size,
                           total_count |-> TotalCount(r.rows)]
               /\ sent' = <<r>>
               /\ IF r.raised
                  THEN pc' = "done" /\ result' = Failed("Failed to list entities")
                  ELSE pc' = "le_page" /\ result' = NoResult
    /\ UNCHANGED <<sysVars, regVars, storeVars, uuid_next>>

\* the page query and the pagination metadata
list_entities_page ==
    /\ pc = "le_page"
    /\ LET q == QueryListEntities(call.entity_type, call.properties, call.skip,
                                  call.page_size)
       IN \E o \in Outcomes(q) :
            LET r == execute_query(q, o)
            IN /\ sent' = Append(sent, r)
               /\ result' =
                    IF r.raised THEN Failed("Failed to list entities")
                    ELSE [success |-> TRUE, message |-> "",
                          entities |-> [i \in 1..Len(r.rows) |-> r.rows[i].e],
                          pagination |-> Pagination(call.page, call.page_size,
                                                    call.total_count)]
    /\ pc' = "done"
    /\ UNCHANGED <<sysVars, regVars, storeVars, call, uuid_next>>

get_entity_by_properties ==
    /\ pc = "idle"
    /\ \E entity_type \in FilterTypes, properties \in FilterPayloads :
        LET q == QueryEntityByProperties(entity_type, properties)
        IN \E o \in Outcomes(q) :
            LET r == execute_query(q, o)
            IN /\ call' = [name |-> "get_entity_by_properties",
                           properties |-> properties, entity_type |-> entity_type]
               /\ sent' = <<r>>
               /\ result' =
                    IF r.raised THEN Failed("Failed to find entity by properties")
                    ELSE IF r.rows = <<>>
                    THEN Failed("No entity found matching the specified properties")
                    ELSE [success |-> TRUE, message |-> "", entity |-> r.rows[1].e,
                          entity_id |-> GetKey(r.rows[1].e, "id").s]
    /\ pc' = "done"
    /\ UNCHANGED <<sysVars, regVars, storeVars, uuid_next>>

\* ---- get_entity_with_tier -----------------------------------------------
valid_tiers == <<"L1", "L2", "L3">>
\* f"_{tier.lower()}"
TierSuffix(tier) == CASE tier = "L1" -> "_l1" [] tier = "L2" -> "_l2" [] tier = "L3" -> "_l3"

\* the property names of the stored entities, cut before each "_l<n>" piece
NameParts ==
    ("id" :> <<"id">>) @@ ("name" :> <<"name">>) @@ ("domain" :> <<"domain">>)
    @@ ("notation" :> <<"notation">>) @@ ("summary" :> <<"summary">>)
    @@ ("summary_l1" :> <<"summary", "_l1">>)
    @@ ("summary_l2" :> <<"summary", "_l2">>)
    @@ ("summary_l2_l1" :> <<"summary", "_l2", "_l1">>)
\* an endswith that recognizes no suffix
EndsNowhere(prop, suffix) == FALSE
EndsWith(prop, suffix) ==
    Len(NameParts[prop]) > 1 /\ NameParts[prop][Len(NameParts[prop])] = suffix
\* prop[:-len(suffix)]
WithoutSuffix(prop) ==
    CHOOSE base \in DOMAIN NameParts :
        NameParts[base] = SubSeq(NameParts[prop], 1, Len(NameParts[prop]) - 1)

\* the "for prop, value in entity.items()" loop
RECURSIVE TierProperties(_, _, _)
TierProperties(entity, tier, tier_properties) ==
    IF entity = <<>> THEN tier_properties
    ELSE LET prop == Head(entity).key
             value == Head(entity).val
         IN TierProperties(Tail(entity), tier,
                IF EndsWith(prop, TierSuffix(tier))
                THEN DictSet(tier_properties, WithoutSuffix(prop), value)
                ELSE IF ~\E i \in 1..Len(valid_tiers) :
                            EndsWith(prop, TierSuffix(valid_tiers[i]))
                     THEN DictSet(tier_properties, prop, value)
                     ELSE tier_properties)

\* [label for label in labels if label != "Entity"], first element or default
TypeOfLabels(labels, default) ==
    LET types == SelectSeq(labels, LAMBDA label : label # "Entity")
    IN IF types # <<>> THEN types[1] ELSE default

\* get_entity_with_tier up to the first store call and the "if not result"
get_entity_with_tier ==
    /\ pc = "idle"
    /\ \E entity_id \in EntityIds \cup {UuidOf(1)},
          tier_arg \in {"L1", "L2", "l1", "None"} :
        LET q == Query(QryText.EntityById,
                         <<KV("id", StrVal(entity_id))>>)
        IN \E o \in Outcomes(q) :
        LET tier == IF \E i \in 1..Len(valid_tiers) : valid_tiers[i] = tier_arg
                    THEN tier_arg ELSE "L1"
            r == execute_query(q, o)
        IN /\ call' = [name |-> "get_entity_with_tier", entity_id |-> entity_id,
                       tier_arg |-> tier_arg, tier |-> tier]
           /\ sent' = <<r>>
           /\ IF r.raised
              THEN pc' = "done" /\ result' = Failed("Failed to get entity with tier")
              ELSE IF r.rows = <<>>
              THEN pc' = "done" /\ result' = Failed("Entity not found")
              ELSE pc' = "tier_labels" /\ result' = NoResult
    /\ UNCHANGED <<sysVars, regVars, storeVars, uuid_next>>

\* get_entity_with_tier from the projection to the return
get_entity_with_tier_labels ==
    /\ pc = "tier_labels"
    /\ LET q == Query(QryText.EntityLabels,
                        <<KV("id", StrVal(call.entity_id))>>)
       IN \E o \in Outcomes(q) :
        LET entity == sent[1].rows[1].e
            tier_properties == TierProperties(entity, call.tier, <<>>)
            r == execute_query(q, o)
        IN /\ sent' = Append(sent, r)
           /\ result' =
                IF r.raised THEN Failed("Failed to get entity with tier")
                ELSE [success |-> TRUE, message |-> "",
                      entity_id |-> call.entity_id,
                      entity_type |-> IF r.rows # <<>>
                                      THEN TypeOfLabels(r.rows[1].labels, "None")
                                      ELSE "None",
                      tier |-> call.tier, properties |-> tier_properties]
    /\ pc' = "done"
    /\ UNCHANGED <<sysVars, regVars, storeVars, call, uuid_next>>

\* ---- create_relationship ------------------------------------------------
RelationshipCallTypes == {"REPRESENTS", "RELATES_TO", "BOGUS"}

\* a create_relationship that goes on whatever the validator said
ValidationIgnored(validation) == FALSE

\* "if not source_result" / "if not target_result" / "if not is_valid"
SourceMissing(source_result) == source_result = <<>>
TargetMissing(target_result) == target_result = <<>>
ValidationRejected(validation) == ~validation.ok

\* ", ".join([f"{k}: ${k}" for k in properties.keys()]) inside "{...}"
RECURSIVE PropsString(_)
PropsString(properties) ==
    IF properties = <<>> THEN <<>>
    ELSE <<FStr("properties.key", Head(properties).key), Lit(": $"),
           FStr("properties.key", Head(properties).key)>>
         \o (IF Len(properties) > 1 THEN <<Lit(", ")>> ELSE <<>>)
         \o PropsString(Tail(properties))
PropsClause(properties) ==
    IF properties = <<>> THEN <<>>
    ELSE <<Lit("{")>> \o PropsString(properties) \o <<Lit("}")>>

QueryCreateRelationship(source_id, relationship_type, target_id, properties) ==
    Query(<<RelText.CreateRel, FStr("relationship_type", relationship_type), Lit(" ")>>
            \o PropsClause(properties) \o <<Lit("]->(target) RETURN r")>>,
          DictMerge(properties, <<KV("source_id", StrVal(source_id)),
                                  KV("target_id", StrVal(target_id))>>))

\* create_relationship up to the source lookup and the "if not source_result"
create_relationship ==
    /\ pc = "idle"
    /\ uuid_next < MaxUuid /\ Cardinality(rels) < MaxRels
    /\ \E source_id \in EntityIds, target_id \in EntityIds,
          relationship_type \in RelationshipCallTypes,
          properties \in
            {<<>>, <<KV("confidence", NumVal(1))>>,
             <<KV("confidence", StrVal("high"))>>, <<KV("bogus", StrVal("high"))>>,
             <<KV("relationship_type", StrVal("high"))>>} :
        LET q == Query(RelText.SourceLabels,
                         <<KV("source_id", StrVal(source_id))>>)
        IN \E o \in Outcomes(q) :
        LET r == execute_query(q, o)
        IN /\ call' = [name |-> "create_relationship", source_id |-> source_id,
                       relationship_type |-> relationship_type,
                       target_id |-> target_id, properties |-> properties,
                       validation |-> Returned(<<>>), relationship_id |-> ""]
           /\ sent' = <<r>>
           /\ IF r.raised
              THEN pc' = "done" /\ result' = Failed("Failed to create relationship")
              ELSE IF SourceMissing(r.rows)
              THEN pc' = "done" /\ result' = Failed("Source entity not found")
              ELSE pc' = "cr_target" /\ result' = NoResult
    /\ UNCHANGED <<sysVars, regVars, storeVars, uuid_next>>

\* the target lookup, the validation and the id of the relationship
create_relationship_target ==
    /\ pc = "cr_target"
    /\ LET q == Query(RelText.TargetLabels,
                        <<KV("target_id", StrVal(call.target_id))>>)
       IN \E o \in Outcomes(q) :
        LET r == execute_query(q, o)
            source_type == TypeOfLabels(sent[1].rows[1].labels, "Entity")
            target_type == TypeOfLabels(r.rows[1].labels, "Entity")
            validation == validate_relationship_result(call.relationship_type,
                              source_type, target_type, call.properties)
        IN /\ sent' = Append(sent, r)
           /\ IF r.raised
              THEN /\ pc' = "done" /\ result' = Failed("Failed to create relationship")
                   /\ UNCHANGED <<call, uuid_next>>
              ELSE IF TargetMissing(r.rows)
              THEN /\ pc' = "done" /\ result' = Failed("Target entity not found")
                   /\ UNCHANGED <<call, uuid_next>>
              ELSE IF validation.raised
              THEN /\ pc' = "done" /\ result' = Failed("Failed to create relationship")
                   /\ call' = [call EXCEPT !.validation = validation]
                   /\ UNCHANGED uuid_next
              ELSE IF ValidationRejected(validation)
              THEN /\ pc' = "done"
                   /\ result' = [success |-> FALSE,
                                 message |-> "Relationship validation failed",
                                 errors |-> validation.errors]
                   /\ call' = [call EXCEPT !.validation = validation]
                   /\ UNCHANGED uuid_next
              ELSE /\ pc' = "cr_write" /\ result' = NoResult
                   /\ uuid_next' = uuid_next + 1
                   /\ call' = [call EXCEPT !.validation = validation,
                                 !.relationship_id = UuidOf(uuid_next + 1)]
    /\ UNCHANGED <<sysVars, regVars, storeVars>>

\* the CREATE and the success envelope
create_relationship_write ==
    /\ pc = "cr_write"
    /\ \E fault \in WriteFaults :
        LET properties == DictSet(call.properties, "id", StrVal(call.relationship_id))
            q == QueryCreateRelationship(call.source_id, call.relationship_type,
                                         call.target_id, properties)
            r == execute_write_query(q, fault)
        IN /\ sent' = Append(sent, r)
           /\ rels' = IF r.raised THEN rels ELSE StoreApply(q.text, q.params)
           /\ result' =
                IF r.raised THEN Failed("Failed to create relationship")
                ELSE [success |-> TRUE, message |-> "Relationship created successfully",
                      relationship_id |-> call.relationship_id,
                      source_id |-> call.source_id,
                      relationship_type |-> call.relationship_type,
                      target_id |-> call.target_id, properties |-> properties]
    /\ pc' = "done"
    /\ UNCHANGED <<sysVars, regVars, nodes, call, uuid_next>>

\* ---- get_relationship / delete_relationship -----------------------------
\* a lookup that writes the two ids into the text instead of binding them
QueryIdsInlined(source_id, relationship_type, target_id) ==
    Query(<<Lit("MATCH (source:Entity {id: '"), FStr("source_id", source_id),
            Lit("'})-[r:"), FStr("relationship_type", relationship_type),
            Lit("]->(target:Entity {id: '"), FStr("target_id", target_id),
            Lit("'}) RETURN r")>>, <<>>)

\* a delete whose text only reads the relationship
QueryDeleteNothing(source_id, relationship_type, target_id) ==
    Query(<<RelText.MatchRel, FStr("relationship_type", relationship_type),
            RelText.ReturnRel>>,
          <<KV("source_id", StrVal(source_id)), KV("target_id", StrVal(target_id))>>)

QueryGetRelationship(source_id, relationship_type, target_id) ==
    Query(<<RelText.MatchRel, FStr("relationship_type", relationship_type),
            RelText.ReturnRel>>,
          <<KV("source_id", StrVal(source_id)), KV("target_id", StrVal(target_id))>>)
QueryDeleteRelationship(source_id, relationship_type, target_id) ==
    Query(<<RelText.MatchRel, FStr("relationship_type", relationship_type),
            RelText.DeleteRel>>,
          <<KV("source_id", StrVal(source_id)), KV("target_id", StrVal(target_id))>>)

get_relationship ==
    /\ pc = "idle"
    /\ \E source_id \in EntityIds \cup {" "}, target_id \in EntityIds,
          relationship_type \in RelationshipCallTypes :
        LET q == QueryGetRelationship(source_id, relationship_type, target_id)
        IN \E o \in Outcomes(q) :
            LET r == execute_query(q, o)
            IN /\ call' = [name |-> "get_relationship", source_id |-> source_id,
                           relationship_type |-> relationship_type,
                           target_id |-> target_id]
               /\ sent' = <<r>>
               /\ result' =
                    IF r.raised THEN Failed("Failed to retrieve relationship")
                    ELSE IF r.rows = <<>> THEN Failed("Relationship not found")
                    ELSE [success |-> TRUE, message |-> "",
                          relationship |-> r.rows[1].r, source_id |-> source_id,
                          relationship_type |-> relationship_type,
                          target_id |-> target_id]
    /\ pc' = "done"
    /\ UNCHANGED <<sysVars, regVars, storeVars, uuid_next>>

\* delete_relationship up to the existence check
delete_relationship ==
    /\ pc = "idle"
    /\ \E source_id \in EntityIds, target_id \in EntityIds,
          relationship_type \in RelationshipCallTypes :
        LET q == QueryGetRelationship(source_id, relationship_type, target_id)
        IN \E o \in Outcomes(q) :
            LET r == execute_query(q, o)
            IN /\ call' = [name |-> "delete_relationship", source_id |-> source_id,
                           relationship_type |-> relationship_type,
                           target_id |-> target_id]
               /\ sent' = <<r>>
               /\ IF r.raised
                  THEN pc' = "done" /\ result' = Failed("Failed to delete relationship")
                  ELSE IF r.rows = <<>>
                  THEN pc' = "done" /\ result' = Failed("Relationship not found")
                  ELSE pc' = "dr_write" /\ result' = NoResult
    /\ UNCHANGED <<sysVars, regVars, storeVars, uuid_next>>

\* the DELETE and the success envelope
delete_relationship_write ==
    /\ pc = "dr_write"
    /\ \E fault \in WriteFaults :
        LET q == QueryDeleteRelationship(call.source_id, call.relationship_type,
                                         call.target_id)
            r == execute_write_query(q, fault)
        IN /\ sent' = Append(sent, r)
           /\ rels' = IF r.raised THEN rels ELSE StoreApply(q.text, q.params)
           /\ result' =
                IF r.raised THEN Failed("Failed to delete relationship")
                ELSE [success |-> TRUE, message |-> "Relationship deleted successfully",
                      source_id |-> call.source_id,
                      relationship_type |-> call.relationship_type,
                      target_id |-> call.target_id]
    /\ pc' = "done"
    /\ UNCHANGED <<sysVars, regVars, nodes, call, uuid_next>>

\* ---- list_relationships -------------------------------------------------
valid_directions == <<"outgoing", "incoming", "both">>
NormalDirection(direction) ==
    IF \E i \in 1..Len(valid_directions) : valid_directions[i] = direction
    THEN direction ELSE "both"
TypePiece(relationship_type) ==
    IF relationship_type # ""
    THEN <<Lit(":"), FStr("relationship_type", relationship_type)>> ELSE <<>>
\* query_parts / count_query_parts before the RETURN
RelationshipQueryParts(entity_id, relationship_type, direction) ==
    IF entity_id # ""
    THEN (IF direction \in {"outgoing", "both"}
          THEN <<RelText.Outgoing>> \o TypePiece(relationship_type) \o <<RelText.AnyTarget>>
          ELSE <<>>)
         \o (IF direction = "both" THEN <<Lit("UNION")>> ELSE <<>>)
         \o (IF direction \in {"incoming", "both"}
             THEN <<RelText.AnySource>> \o TypePiece(relationship_type) \o <<RelText.Incoming>>
             ELSE <<>>)
    ELSE <<RelText.AnySource>> \o TypePiece(relationship_type) \o <<RelText.AnyTarget>>
ListParams(entity_id) ==
    IF entity_id # "" THEN <<KV("entity_id", StrVal(entity_id))>> ELSE <<>>
QueryCountRelationships(entity_id, relationship_type, direction) ==
    Query(RelationshipQueryParts(entity_id, relationship_type, direction)
            \o <<RelText.CountRels>>,
          ListParams(entity_id))
QueryListRelationships(entity_id, relationship_type, direction, skip, page_size) ==
    Query(RelationshipQueryParts(entity_id, relationship_type, direction)
            \o <<Lit("RETURN source.id AS source_id, type(r) AS relationship_type, target.id AS target_id, r AS relationship"),
                 Lit("SKIP"), FInt("skip", skip), Lit("LIMIT"),
                 FInt("page_size", page_size)>>,
          ListParams(entity_id))

\* list_relationships up to the count query
list_relationships ==
    /\ pc = "idle"
    /\ \E entity_id \in {"", "e1"}, relationship_type \in {"", "REPRESENTS", "BOGUS"},
          direction_arg \in {"outgoing", "incoming", "sideways"}, paging \in PageArgs :
        LET page == NormalPage(paging.page)
            page_size == NormalPageSize(paging.page_size)
            direction == NormalDirection(direction_arg)
            q == QueryCountRelationships(entity_id, relationship_type, direction)
        IN \E o \in Outcomes(q) :
            LET r == execute_query(q, o)
            IN /\ call' = [name |-> "list_relationships", entity_id |-> entity_id,
                           relationship_type |-> relationship_type,
                           direction_arg |-> direction_arg, direction |-> direction,
                           page_arg |-> paging.page,
                           page_size_arg |-> paging.page_size,
                           page |-> page, page_size |-> page_size,
                           skip |-> page * page_size,
                           total_count |-> TotalCount(r.rows)]
               /\ sent' = <<r>>
               /\ IF r.raised
                  THEN pc' = "done" /\ result' = Failed("Failed to list relationships")
                  ELSE pc' = "lr_page" /\ result' = NoResult
    /\ UNCHANGED <<sysVars, regVars, storeVars, uuid_next>>

\* the page query and the pagination metadata
list_relationships_page ==
    /\ pc = "lr_page"
    /\ LET q == QueryListRelationships(call.entity_id, call.relationship_type,
                                       call.direction, call.skip, call.page_size)
       IN \E o \in Outcomes(q) :
            LET r == execute_query(q, o)
            IN /\ sent' = Append(sent, r)
               /\ result' =
                    IF r.raised THEN Failed("Failed to list relationships")
                    ELSE [success |-> TRUE, message |-> "",
                          relationships |->
                            [i \in 1..Len(r.rows) |->
                                [source_id |-> r.rows[i].source_id,
                                 relationship_type |-> r.rows[i].relationship_type,
                                 target_id |-> r.rows[i].target_id,
                                 properties |-> r.rows[i].relationship]],
                          pagination |-> Pagination(call.page, call.page_size,
                                                    call.total_count)]
    /\ pc' = "done"
    /\ UNCHANGED <<sysVars, regVars, storeVars, call, uuid_next>>

\* ---- find_path / find_paths ---------------------------------------------
DepthArgs == {0, 1, 10, 11}
PathTypeArgs == {<<>>, <<"REPRESENTS">>, <<"REPRESENTS", "BOGUS">>}
\* a depth above 10 cut down to 10
DepthClamped(max_depth, default) ==
    IF max_depth <= 0 THEN default ELSE IF max_depth > 10 THEN 10 ELSE max_depth
\* a depth used as it was given
DepthUnchecked(max_depth, default) == max_depth
\* "if max_depth <= 0 or max_depth > 10: max_depth = default"
NormalDepth(max_depth, default) ==
    IF max_depth <= 0 \/ max_depth > 10 THEN default ELSE max_depth
\* "|".join([f":{t}" for t in relationship_types])
RECURSIVE RelTypes(_)
RelTypes(types) ==
    IF types = <<>> THEN <<>>
    ELSE <<Lit(":"), FStr("relationship_types", Head(types))>>
         \o (IF Len(types) > 1 THEN <<Lit("|")>> ELSE <<>>)
         \o RelTypes(Tail(types))
PathQuery(head, source_id, target_id, max_depth, types) ==
    Query(<<head, Lit("[")>> \o RelTypes(types)
            \o <<Lit("*.."), FInt("max_depth", max_depth), Lit("]"),
                 Lit("-(target:Entity {id: $target_id}))"),
                 Lit("RETURN path, length(path) AS path_length")>>,
          <<KV("source_id", StrVal(source_id)), KV("target_id", StrVal(target_id))>>)
PathsResult(r, source_id, target_id, failure) ==
    IF r.raised THEN Failed(failure)
    ELSE IF r.rows = <<>>
    THEN [success |-> TRUE, message |-> "No path found between the entities",
          paths |-> <<>>]
    ELSE [success |-> TRUE, message |-> "",
          paths |-> [i \in 1..Len(r.rows) |->
                        [length |-> r.rows[i].path_length, nodes |-> r.rows[i].nodes,
                         relationships |-> r.rows[i].relationships]],
          source_id |-> source_id, target_id |-> target_id, count |-> Len(r.rows)]

find_path ==
    /\ pc = "idle"
    /\ \E source_id \in EntityIds, target_id \in EntityIds,
          depth_arg \in DepthArgs, types \in PathTypeArgs :
        LET max_depth == NormalDepth(depth_arg, 5)
            q == PathQuery(RelText.ShortestPath, source_id, target_id, max_depth,
                           types)
        IN \E o \in Outcomes(q) :
            LET r == execute_query(q, o)
            IN /\ call' = [name |-> "find_path", source_id |-> source_id,
                           target_id |-> target_id, depth_arg |-> depth_arg,
                           max_depth |-> max_depth, relationship_types |-> types]
               /\ sent' = <<r>>
               /\ result' = PathsResult(r, source_id, target_id, "Failed to find path")
    /\ pc' = "done"
    /\ UNCHANGED <<sysVars, regVars, storeVars, uuid_next>>

find_paths ==
    /\ pc = "idle"
    /\ \E source_id \in EntityIds, target_id \in EntityIds,
          depth_arg \in DepthArgs, types \in PathTypeArgs :
        LET max_depth == NormalDepth(depth_arg, 3)
            q == PathQuery(QryText.AllShortestPaths, source_id, target_id,
                           max_depth, types)
        IN \E o \in Outcomes(q) :
            LET r == execute_query(q, o)
            IN /\ call' = [name |-> "find_paths", source_id |-> source_id,
                           target_id |-> target_id, depth_arg |-> depth_arg,
                           max_depth |-> max_depth, relationship_types |-> types]
               /\ sent' = <<r>>
               /\ result' = PathsResult(r, source_id, target_id, "Failed to find paths")
    /\ pc' = "done"
    /\ UNCHANGED <<sysVars, regVars, storeVars, uuid_next>>

\* ---- search_entities ----------------------------------------------------
\* query.strip().split()
Split(query) ==
    CASE query = "deriv" -> <<"deriv">>
      [] query = "DERIV calc" -> <<"DERIV", "calc">>
      [] query = " " -> <<>>
\* f"term{i}"
TermParam(i) == <<"term0", "term1">>[i + 1]
TermClause(property, term_param) ==
    <<Lit(property), FStr("term_param", term_param), Lit(")")>>
\* a term that adds no condition to the WHERE clause
NoClauses(term_param) == <<>>
\* "(" + " OR ".join(term_clauses) + ")"
TermClauses(term_param) ==
    <<Lit("(")>>
    \o TermClause("toLower(e.name) CONTAINS toLower($", term_param) \o <<Lit(" OR ")>>
    \o TermClause("toLower(e.description) CONTAINS toLower($", term_param)
    \o <<Lit(" OR ")>>
    \o TermClause("toLower(toString(e.notation)) CONTAINS toLower($", term_param)
    \o <<Lit(" OR ")>>
    \o TermClause("toLower(toString(e.domain)) CONTAINS toLower($", term_param)
    \o <<Lit(")")>>
RECURSIVE SearchWhere(_, _)
SearchWhere(terms, i) ==
    IF i >= Len(terms) THEN <<>>
    ELSE TermClauses(TermParam(i))
         \o (IF i + 1 < Len(terms) THEN <<Lit(" AND ")>> ELSE <<>>)
         \o SearchWhere(terms, i + 1)
\* ":".join(["Entity"] + entity_types)
TypeFilter(types) ==
    <<Lit("Entity")>>
    \o [i \in 1..2 * Len(types) |->
          IF i % 2 = 1 THEN Lit(":") ELSE FStr("entity_types", types[i \div 2])]
QuerySearchEntities(terms, types, limit) ==
    Query(<<QryText.MatchLabels>> \o TypeFilter(types) \o <<Lit(")")>>
            \o (IF terms # <<>> THEN <<Lit("WHERE")>> \o SearchWhere(terms, 0) ELSE <<>>)
            \o <<Lit("RETURN e LIMIT"), FInt("limit", limit)>>,
          [i \in 1..Len(terms) |-> KV(TermParam(i - 1), StrVal(terms[i]))])

search_entities ==
    /\ pc = "idle"
    /\ \E query \in {"deriv", "DERIV calc", " "},
          types_arg \in {<<>>, <<"Concept">>, <<"Symbol">>, <<"Bogus">>},
          limit_arg \in {0, 1, 101} :
        LET types == IF types_arg # <<>> THEN types_arg ELSE <<"Concept", "Symbol">>
            limit == IF limit_arg <= 0 \/ limit_arg > MAX_PAGE_SIZE
                     THEN DEFAULT_PAGE_SIZE ELSE limit_arg
            q == QuerySearchEntities(Split(query), types, limit)
        IN \E o \in Outcomes(q) :
            LET r == execute_query(q, o)
            IN /\ call' = [name |-> "search_entities", query |-> query,
                           types_arg |-> types_arg, limit_arg |-> limit_arg,
                           entity_types |-> types, limit |-> limit]
               /\ sent' = <<r>>
               /\ result' =
                    IF r.raised THEN Failed("Failed to search entities")
                    ELSE [success |-> TRUE, message |-> "", query |-> query,
                          entity_types |-> types,
                          results |-> [i \in 1..Len(r.rows) |-> r.rows[i].e],
                          count |-> Len(r.rows), limit |-> limit]
    /\ pc' = "done"
    /\ UNCHANGED <<sysVars, regVars, storeVars, uuid_next>>

\* ---- find_symbols_for_concept / find_concepts_for_symbol ----------------

\* find_symbols_for_concept up to the "if not concept_result"
find_symbols_for_concept ==
    /\ pc = "idle"
    /\ \E concept_id \in EntityIds :
        LET q == Query(QryText.Concept,
                         <<KV("concept_id", StrVal(concept_id))>>)
        IN \E o \in Outcomes(q) :
            LET r == execute_query(q, o)
            IN /\ call' = [name |-> "find_symbols_for_concept",
                           concept_id |-> concept_id]
               /\ sent' = <<r>>
               /\ IF r.raised
                  THEN pc' = "done" /\ result' = Failed("Failed to find symbols for concept")
                  ELSE IF r.rows = <<>>
                  THEN pc' = "done" /\ result' = Failed("Concept not found")
                  ELSE pc' = "fs_symbols" /\ result' = NoResult
    /\ UNCHANGED <<sysVars, regVars, storeVars, uuid_next>>

find_symbols_for_concept_symbols ==
    /\ pc = "fs_symbols"
    /\ LET q == Query(QryText.SymbolsOfConcept,
                        <<KV("concept_id", StrVal(call.concept_id))>>)
       IN \E o \in Outcomes(q) :
        LET r == execute_query(q, o)
        IN /\ sent' = Append(sent, r)
           /\ result' =
                IF r.raised THEN Failed("Failed to find symbols for concept")
                ELSE [success |-> TRUE, message |-> "", concept |-> sent[1].rows[1].c,
                      symbols |-> r.rows, count |-> Len(r.rows)]
    /\ pc' = "done"
    /\ UNCHANGED <<sysVars, regVars, storeVars, call, uuid_next>>

\* find_concepts_for_symbol up to the "if not symbol_result"
find_concepts_for_symbol ==
    /\ pc = "idle"
    /\ \E symbol_id \in EntityIds :
        LET q == Query(QryText.Symbol,
                         <<KV("symbol_id", StrVal(symbol_id))>>)
        IN \E o \in Outcomes(q) :
            LET r == execute_query(q, o)
            IN /\ call' = [name |-> "find_concepts_for_symbol",
                           symbol_id |-> symbol_id]
               /\ sent' = <<r>>
               /\ IF r.raised
                  THEN pc' = "done" /\ result' = Failed("Failed to find concepts for symbol")
                  ELSE IF r.rows = <<>>
                  THEN pc' = "done" /\ result' = Failed("Symbol not found")
                  ELSE pc' = "fc_concepts" /\ result' = NoResult
    /\ UNCHANGED <<sysVars, regVars, storeVars, uuid_next>>

find_concepts_for_symbol_concepts ==
    /\ pc = "fc_concepts"
    /\ LET q == Query(QryText.ConceptsOfSymbol,
                        <<KV("symbol_id", StrVal(call.symbol_id))>>)
       IN \E o \in Outcomes(q) :
        LET r == execute_query(q, o)
        IN /\ sent' = Append(sent, r)
           /\ result' =
                IF r.raised THEN Failed("Failed to find concepts for symbol")
                ELSE [success |-> TRUE, message |-> "", symbol |-> sent[1].rows[1].s,
                      concepts |-> r.rows, count |-> Len(r.rows)]
    /\ pc' = "done"
    /\ UNCHANGED <<sysVars, regVars, storeVars, call, uuid_next>>

\* ---- find_cross_domain_mappings -----------------------------------------
QueryCrossDomain(concept_id, source_domain, target_domain) ==
    Query(<<QryText.CrossConcept>>
            \o (IF source_domain # "" \/ target_domain # ""
                THEN <<Lit("MATCH (source:Concept)-[r1]->(c),"),
                       Lit("      (c)-[r2]->(target:Concept)"), Lit("WHERE")>>
                     \o (IF source_domain # "" THEN <<QryText.SourceDomain>> ELSE <<>>)
                     \o (IF source_domain # "" /\ target_domain # ""
                         THEN <<Lit(" AND ")>> ELSE <<>>)
                     \o (IF target_domain # "" THEN <<QryText.TargetDomain>> ELSE <<>>)
                     \o <<Lit("RETURN source, r1, target, r2")>>
                ELSE <<QryText.CrossAll, Lit("RETURN other, r")>>),
          <<KV("concept_id", StrVal(concept_id))>>
            \o (IF source_domain # ""
                THEN <<KV("source_domain", StrVal(source_domain))>> ELSE <<>>)
            \o (IF target_domain # ""
                THEN <<KV("target_domain", StrVal(target_domain))>> ELSE <<>>))

\* find_cross_domain_mappings up to the "if not concept_result"
find_cross_domain_mappings ==
    /\ pc = "idle"
    /\ \E concept_id \in EntityIds, source_domain \in {"", "calculus"},
          target_domain \in {"", "algebra"} :
        LET q == Query(QryText.Concept,
                         <<KV("concept_id", StrVal(concept_id))>>)
        IN \E o \in Outcomes(q) :
            LET r == execute_query(q, o)
            IN /\ call' = [name |-> "find_cross_domain_mappings",
                           concept_id |-> concept_id,
                           source_domain |-> source_domain,
                           target_domain |-> target_domain]
               /\ sent' = <<r>>
               /\ IF r.raised
                  THEN pc' = "done" /\ result' = Failed("Failed to find cross-domain mappings")
                  ELSE IF r.rows = <<>>
                  THEN pc' = "done" /\ result' = Failed("Concept not found")
                  ELSE pc' = "cd_mappings" /\ result' = NoResult
    /\ UNCHANGED <<sysVars, regVars, storeVars, uuid_next>>

find_cross_domain_mappings_mappings ==
    /\ pc = "cd_mappings"
    /\ LET q == QueryCrossDomain(call.concept_id, call.source_domain,
                                 call.target_domain)
       IN \E o \in Outcomes(q) :
            LET r == execute_query(q, o)
            IN /\ sent' = Append(sent, r)
               /\ result' =
                    IF r.raised THEN Failed("Failed to find cross-domain mappings")
                    ELSE [success |-> TRUE, message |-> "",
                          concept |-> sent[1].rows[1].c,
                          source_domain |-> call.source_domain,
                          target_domain |-> call.target_domain,
                          mappings |-> r.rows, count |-> Len(r.rows)]
    /\ pc' = "done"
    /\ UNCHANGED <<sysVars, regVars, storeVars, call, uuid_next>>

Init ==
    /\ entity_types = DefaultEntityTypes
    /\ relationship_types = DefaultRelationshipTypes
    /\ v = VIdle
    /\ nodes = <<>> /\ rels = {}
    /\ pc = "idle" /\ call = NoCall /\ sent = <<>> /\ result = NoResult
    /\ uuid_next = 0
    /\ schema_dir = DirOf(entity_types, relationship_types)
    /\ boot = Booted(entity_types, relationship_types)
    /\ conn = Connected

Next ==
    \/ EnvCreateEntity
    \/ EnvDeleteEntity
    \/ Return
    \/ create_entity
    \/ list_entities
    \/ list_entities_page
    \/ get_entity_by_properties
    \/ get_entity_with_tier
    \/ get_entity_with_tier_labels
    \/ create_relationship
    \/ create_relationship_target
    \/ create_relationship_write
    \/ get_relationship
    \/ delete_relationship
    \/ delete_relationship_write
    \/ list_relationships
    \/ list_relationships_page
    \/ find_path
    \/ find_paths
    \/ search_entities
    \/ find_symbols_for_concept
    \/ find_symbols_for_concept_symbols
    \/ find_concepts_for_symbol
    \/ find_concepts_for_symbol_concepts
    \/ find_cross_domain_mappings
    \/ find_cross_domain_mappings_mappings

Spec == Init /\ [][Next]_vars

(***************************************************************************)
(* Claims about the registry and the validator, checked under SpecValidate.*)
(***************************************************************************)

\* the loop of validate_entity run to its end from a type, for a type whose
\* chain ends within `fuel` passes
RECURSIVE RunLoop(_, _)
RunLoop(w, fuel) ==
    IF w.pc # "walk" \/ fuel = 0 THEN w ELSE RunLoop(LoopPass(w), fuel - 1)
EffectiveOf(type_name) ==
    RunLoop([VIdle EXCEPT !.pc = "walk", !.current_type = type_name],
            Cardinality(DOMAIN entity_types) + 1).all_properties

\* the property definitions a finished validator call checked the payload
\* against
CheckedProperties ==
    IF v.fn = "validate_entity" THEN v.all_properties
    ELSE DefProperties(get_relationship_type(v.type))
CheckedTypeRegistered ==
    IF v.fn = "validate_entity" THEN HasEntityType(v.type)
    ELSE HasRelationshipType(v.type)

\* C3: for an entity type T with a registered parent P, the property set
\* validate_entity resolves for T holds every property name of P's resolved
\* set, and a property T declares itself is in effect with T's own
\* definition (leaf overrides ancestor)
C3_LeafOverridesAncestor ==
    (v.fn = "validate_entity" /\ v.pc = "check"
     /\ "inherits" \in DOMAIN get_entity_type(v.type)
     /\ HasEntityType(get_entity_type(v.type).inherits))
    => /\ PropNames(EffectiveOf(get_entity_type(v.type).inherits))
            \subseteq PropNames(v.all_properties)
       /\ \A e \in Range(DefProperties(get_entity_type(v.type))) :
            GetProp(v.all_properties, e.name) = e.def

\* C4: the inheritance walk never continues onto a type it has already
\* merged; a revisit is reported as a cycle and ends the walk
C4_CycleDetected ==
    v.pc = "walk" => v.current_type \notin v.visited

\* C5: validate_entity and validate_relationship return an (ok, violations)
\* pair for every registered type and every payload; no call ends in an
\* exception
C5_ValidateTotal ==
    v.pc = "done" => ~v.res.raised

\* the violations the rule of section 4.2 asks for, for the property
\* definitions `defs` and the payload `properties`
MissingViolations(defs, properties) ==
    {Err("is missing", e.name) :
        e \in {d \in Range(defs) : DefRequired(d.def) /\ ~HasKey(properties, d.name)}}
UndeclaredViolations(defs, properties) ==
    {Err("is not defined in schema", key) : key \in Keys(properties) \ PropNames(defs)}
ConstraintViolations(defs, properties) ==
    UNION {
        LET val == item.val
            def == GetProp(defs, item.key)
        IN Range(TypeErrors(item.key, val, def))
           \cup Range(EnumErrors(item.key, val, def))
           \cup (IF DefType(def) = "number" /\ IsNumber(val) /\ "min" \in DOMAIN def
                    /\ val.n < def.min
                 THEN {Err("should be at least", item.key)} ELSE {})
           \cup (IF DefType(def) = "number" /\ IsNumber(val) /\ "max" \in DOMAIN def
                    /\ val.n > def.max
                 THEN {Err("should be at most", item.key)} ELSE {})
           \cup (IF DefType(def) = "string" /\ IsStr(val) /\ "minLength" \in DOMAIN def
                    /\ Len(val.s) < def.minLength
                 THEN {Err("should have at least", item.key)} ELSE {})
           \cup (IF DefType(def) = "string" /\ IsStr(val) /\ "maxLength" \in DOMAIN def
                    /\ Len(val.s) > def.maxLength
                 THEN {Err("should have at most", item.key)} ELSE {})
        : item \in {i \in Range(properties) : HasProp(defs, i.key)}}

\* C6: the returned list holds a violation for every absent required
\* property, every undeclared key and every failed kind, enum, min, max,
\* minLength and maxLength check of a declared key, and ok is true exactly
\* when the list is empty
C6_AllViolationsReported ==
    (v.pc = "done" /\ CheckedTypeRegistered)
    => /\ MissingViolations(CheckedProperties, v.properties) \subseteq Range(v.res.errors)
       /\ UndeclaredViolations(CheckedProperties, v.properties) \subseteq Range(v.res.errors)
       /\ ConstraintViolations(CheckedProperties, v.properties) \subseteq Range(v.res.errors)
       /\ v.res.ok <=> (v.res.errors = <<>>)

\* C7: a payload key that is no property name of the effective type makes
\* the result ok = false with a violation for that key, and a key that is a
\* declared property name is never reported as undeclared
C7_PayloadClosed ==
    (v.pc = "done" /\ CheckedTypeRegistered)
    => \A key \in Keys(v.properties) :
         IF key \in PropNames(CheckedProperties)
         THEN Err("is not defined in schema", key) \notin Range(v.res.errors)
         ELSE /\ ~v.res.ok
              /\ Err("is not defined in schema", key) \in Range(v.res.errors)

(***************************************************************************)
(* Claims about the endpoints, checked under Spec.                         *)
(***************************************************************************)
\* the pieces of the texts the call in progress has sent to the store
SentPieces == UNION {Range(sent[i].text) : i \in 1..Len(sent)}
\* the positions of its writes among its store calls
Writes == {i \in 1..Len(sent) : sent[i].write}

\* the property names declared by some registered type
RegisteredPropertyNames ==
    UNION {PropNames(DefProperties(entity_types[t])) : t \in DOMAIN entity_types}
    \cup UNION {PropNames(DefProperties(relationship_types[t])) :
                    t \in DOMAIN relationship_types}

\* C1: in every query text sent to the store, each interpolated entity type
\* name is a registered entity type, each interpolated relationship type
\* name is a registered relationship type and each interpolated property
\* name is a declared property name
C1_IdentifiersRegistered ==
    \A x \in SentPieces :
        /\ x.arg \in {"entity_type", "entity_types"} => x.s \in DOMAIN entity_types
        /\ x.arg \in {"relationship_type", "relationship_types"}
             => x.s \in DOMAIN relationship_types
        /\ x.arg = "properties.key" => x.s \in RegisteredPropertyNames

\* the strings the caller handed to the call in progress as values: ids,
\* filter and property values, search terms and domain filters
CallerValues ==
    {call[k] : k \in DOMAIN call \cap {"source_id", "target_id", "entity_id",
                                       "concept_id", "symbol_id",
                                       "source_domain", "target_domain"}}
    \cup (IF "properties" \in DOMAIN call
          THEN {kv.val.s : kv \in {x \in Range(call.properties) : IsStr(x.val)}}
          ELSE {})
    \cup (IF "query" \in DOMAIN call THEN Range(Split(call.query)) ELSE {})

EntityValidation(entity_type, properties) ==
    IF ~HasEntityType(entity_type)
    THEN Returned(<<Err("entity type does not exist", entity_type)>>)
    ELSE LET w == RunLoop([VIdle EXCEPT !.pc = "walk", !.current_type = entity_type],
                          Cardinality(DOMAIN entity_types) + 1)
         IN ValidateEntityChecks(w.all_properties, properties, w.errors)

\* C8: a create_entity whose payload the validator does not accept returns
\* a failure without an entity id and has sent no write to the store
C8_InvalidPayloadRejected ==
    (call.name = "create_entity" /\ pc = "done"
     /\ ~EntityValidation(call.entity_type, call.properties).ok)
    => /\ ~result.success
       /\ "entity_id" \notin DOMAIN result
       /\ Writes = {}

\* C9: when create_entity has returned success with id X, the store holds
\* the entity X (so that get_entity_with_tier(X) finds it)
C9_CreatedIsWritten ==
    (call.name = "create_entity" /\ pc = "done" /\ result.success)
    => HasNode(result.entity_id)

\* what the lookups of the create_relationship in progress found
SourceFound == Len(sent) >= 1 /\ ~sent[1].raised /\ sent[1].rows # <<>>
TargetFound == Len(sent) >= 2 /\ ~sent[2].raised /\ sent[2].rows # <<>>
FoundPairValid ==
    validate_relationship_result(call.relationship_type,
        TypeOfLabels(sent[1].rows[1].labels, "Entity"),
        TypeOfLabels(sent[2].rows[1].labels, "Entity"), call.properties).ok

\* C10: create_relationship sends its one write only as its third store
\* call, after the lookup of the source by the caller's source id found it,
\* the lookup of the target by the caller's target id found it and the
\* validator accepted the type, the two types found and the payload; a call
\* that found an endpoint missing or a rejected payload returns a failure
\* and has sent no write, and a call returns success only after the write
C10_WriteAfterChecks ==
    call.name = "create_relationship" =>
        /\ \A i \in Writes :
            /\ i = 3
            /\ ~sent[1].write /\ sent[1].text = RelText.SourceLabels
            /\ sent[1].params = <<KV("source_id", StrVal(call.source_id))>>
            /\ ~sent[2].write /\ sent[2].text = RelText.TargetLabels
            /\ sent[2].params = <<KV("target_id", StrVal(call.target_id))>>
            /\ SourceFound /\ TargetFound /\ FoundPairValid
        /\ (pc = "done" /\ ~(SourceFound /\ TargetFound /\ FoundPairValid))
             => ~result.success /\ Writes = {}
        /\ (pc = "done" /\ result.success) => Writes = {3}

\* a create_relationship that found both ends, passed validation, wrote the
\* relationship and returned success
C10_Witness ==
    /\ call.name = "create_relationship" /\ pc = "done" /\ result.success
    /\ Writes = {3} /\ rels # {}

\* entity_type is in the source_types / target_types list of a registered
\* relationship type
Allowed(type_name, key, entity_type) ==
    /\ key \in DOMAIN relationship_types[type_name]
    /\ \E i \in 1..Len(relationship_types[type_name][key]) :
          relationship_types[type_name][key][i] = entity_type

\* C11: every relationship create_relationship has written has a registered
\* type, a source whose type is in that type's allowed source set and a
\* target whose type is in its allowed target set; a create that found an
\* endpoint of a type outside the allowed set returns a validation failure
\* with the violation list and writes nothing
C11_EndpointTypesAllowed ==
    /\ \A r \in rels :
        /\ HasRelationshipType(r.type)
        /\ Allowed(r.type, "source_types", TypeOfLabels(nodes[r.source].labels, "Entity"))
        /\ Allowed(r.type, "target_types", TypeOfLabels(nodes[r.target].labels, "Entity"))
    /\ (/\ call.name = "create_relationship" /\ pc = "done"
        /\ SourceFound /\ TargetFound
        /\ HasRelationshipType(call.relationship_type)
        /\ ~(/\ Allowed(call.relationship_type, "source_types",
                        TypeOfLabels(sent[1].rows[1].labels, "Entity"))
             /\ Allowed(call.relationship_type, "target_types",
                        TypeOfLabels(sent[2].rows[1].labels, "Entity"))))
       => /\ ~result.success /\ "errors" \in DOMAIN result
          /\ Writes = {}

\* the call in progress is a listing that has sent its page query
PageSent ==
    /\ call.name \in {"list_entities", "list_relationships"}
    /\ Len(sent) = 2

\* C12: list_entities and list_relationships use page' = 0 for a negative
\* page and the page otherwise, page_size' = 20 for a page size that is not
\* in 1..100 and the page size otherwise, so page' >= 0 and page_size' is in
\* 1..100; the page query skips page' * page_size' records and is limited to
\* page_size' records
C12_PaginationNormalized ==
    call.name \in {"list_entities", "list_relationships"} =>
        /\ call.page = (IF call.page_arg < 0 THEN 0 ELSE call.page_arg)
        /\ call.page_size = (IF call.page_size_arg <= 0 \/ call.page_size_arg > 100
                             THEN 20 ELSE call.page_size_arg)
        /\ call.page >= 0 /\ call.page_size >= 1 /\ call.page_size <= 100
        /\ PageSent =>
            /\ {x \in Range(sent[2].text) : x.f = "int"}
                 = {FInt("skip", call.page * call.page_size),
                    FInt("page_size", call.page_size)}
            /\ Last(sent[2].text) = FInt("page_size", call.page_size)
            /\ sent[2].text[Len(sent[2].text) - 1] = Lit("LIMIT")
            /\ sent[2].text[Len(sent[2].text) - 2]
                 = FInt("skip", call.page * call.page_size)
        /\ (pc = "done" /\ result.success) =>
            /\ result.pagination.page = call.page
            /\ result.pagination.page_size = call.page_size

\* a list_entities asked for page 2 of size 101 and sent a page query that
\* skips 40 records and is limited to 20
C12_Witness ==
    /\ call.name = "list_entities" /\ pc = "done" /\ result.success
    /\ call.page_arg = 2 /\ call.page_size_arg = 101
    /\ FInt("skip", 40) \in Range(sent[2].text)
    /\ Last(sent[2].text) = FInt("page_size", 20)

\* C13: in the metadata of a listing, total_pages is the least number of
\* pages of page_size records that hold total_count records (the ceiling of
\* their quotient), it is 0 exactly when total_count is 0, has_prev is
\* page > 0, has_next is page < total_pages - 1, and has_next is false on
\* the last page and on every page beyond it
C13_PaginationMetadata ==
    (call.name \in {"list_entities", "list_relationships"}
     /\ pc = "done" /\ result.success) =>
        LET m == result.pagination
        IN /\ m.total_count >= 0 /\ m.page_size > 0
           /\ m.total_pages * m.page_size >= m.total_count
           /\ m.total_pages >= 0
           /\ m.total_pages > 0 => (m.total_pages - 1) * m.page_size < m.total_count
           /\ (m.total_pages = 0) <=> (m.total_count = 0)
           /\ m.has_prev <=> (m.page > 0)
           /\ m.has_next <=> (m.page < m.total_pages - 1)
           /\ m.page >= m.total_pages - 1 => ~m.has_next

\* a listing of two records in pages of one: the first page of two has a
\* next page and no previous one
C13_Witness ==
    /\ call.name = "list_relationships" /\ pc = "done" /\ result.success
    /\ result.pagination.total_count = 2 /\ result.pagination.page_size = 1
    /\ result.pagination.total_pages = 2 /\ result.pagination.page = 0
    /\ result.pagination.has_next /\ ~result.pagination.has_prev

\* the depth bound in the text of the path query of the call in progress
SentDepth == {x.n : x \in {y \in Range(sent[1].text) : y.arg = "max_depth"}}

\* C14 as stated: a find_path asked for a depth above 10 runs its path
\* query with the bound 10
C14_DepthClampedToTen ==
    (call.name = "find_path" /\ call.depth_arg > 10) => SentDepth = {10}

\* C14 as the code has it: a find_path asked for a depth above 10 or below
\* 1 runs its path query with the default bound 5, a depth in 1..10 is used
\* as given, and when the store answers the query with no record the call
\* returns success with an empty path list
C14_DepthResetToDefault ==
    call.name = "find_path" =>
        /\ SentDepth = {IF call.depth_arg > 10 \/ call.depth_arg < 1
                        THEN 5 ELSE call.depth_arg}
        /\ Len(sent) = 1
        /\ (pc = "done" /\ ~sent[1].raised /\ sent[1].rows = <<>>)
             => result.success /\ result.paths = <<>>

\* a find_path asked for depth 11 between two stored entities that no
\* relationship connects: bound 5, success, no path
C14_Witness ==
    /\ call.name = "find_path" /\ pc = "done" /\ call.depth_arg = 11
    /\ call.source_id # call.target_id
    /\ HasNode(call.source_id) /\ HasNode(call.target_id)
    /\ FInt("max_depth", 5) \in Range(sent[1].text)
    /\ result.success /\ result.paths = <<>>

\* C15: a find_path or find_paths whose source id or target id names no
\* entity of the store returns a not-found failure, not the successful
\* empty result
C15_MissingEndpointReported ==
    [][(/\ pc = "idle" /\ pc' = "done"
        /\ call'.name \in {"find_path", "find_paths"}
        /\ ~(HasNode(call'.source_id) /\ HasNode(call'.target_id)))
       => ~result'.success]_vars

\* C16: a find_path or find_paths from a stored entity to itself that the
\* store answered returns success with a path of length zero: one node, no
\* relationship
C16_ZeroLengthPath ==
    [][(/\ pc = "idle" /\ pc' = "done"
        /\ call'.name \in {"find_path", "find_paths"}
        /\ call'.source_id = call'.target_id /\ HasNode(call'.source_id)
        /\ ~sent'[1].raised)
       => /\ result'.success
          /\ \E i \in 1..Len(result'.paths) :
                /\ result'.paths[i].length = 0
                /\ result'.paths[i].nodes = <<call'.source_id>>
                /\ result'.paths[i].relationships = <<>>]_vars

\* C17: projecting the properties a get_entity_with_tier returned once more
\* with the same tier yields the same mapping
C17_ProjectionIdempotent ==
    (call.name = "get_entity_with_tier" /\ pc = "done" /\ result.success)
    => TierProperties(result.properties, call.tier, <<>>) = result.properties

\* the operations that call the store
StoreOperations ==
    {"create_relationship", "get_relationship", "delete_relationship",
     "list_relationships", "find_path", "find_paths", "search_entities",
     "find_symbols_for_concept", "find_concepts_for_symbol",
     "get_entity_with_tier", "find_cross_domain_mappings", "list_entities",
     "get_entity_by_properties"}

\* C18: an operation that has returned has returned an envelope with a
\* boolean success; a store call that raised is the last store call of its
\* operation (no further call, no retry), and the operation has returned
\* with success = false
C18_FailureEnvelope ==
    /\ pc = "done" => /\ "success" \in DOMAIN result
                      /\ result.success \in BOOLEAN
    /\ call.name \in StoreOperations =>
        \A i \in 1..Len(sent) :
            sent[i].raised => /\ i = Len(sent)
                              /\ pc = "done"
                              /\ "success" \in DOMAIN result
                              /\ ~result.success

\* the write of a create_relationship raised after two lookups that
\* succeeded, and the operation returned a failure
C18_Witness ==
    /\ call.name = "create_relationship" /\ pc = "done"
    /\ Len(sent) = 3 /\ ~sent[1].raised /\ ~sent[2].raised
    /\ sent[3].write /\ sent[3].raised
    /\ ~result.success

\* ---- C19 ------------------------------------------------------------------
\* the calls of one kind that a write made on the driver
CallsOf(i, op) == {k \in 1..Len(sent[i].calls) : sent[i].calls[k].op = op}
CallCompleted(i, op) == \E k \in CallsOf(i, op) : ~sent[i].calls[k].raises
CallRaised(i, op) == \E k \in CallsOf(i, op) : sent[i].calls[k].raises

\* C19: every write ends its transaction and its session on every exit path.
\* The commit is issued exactly when the statement completed without an
\* exception; the rollback is issued exactly when the statement or the commit
\* raised, after that call, and the exception then leaves execute_write_query;
\* a transaction that was begun ends with a completed commit or a rollback,
\* never with both or neither; the session is closed once, as the last call.
C19_TransactionReleased ==
    \A i \in Writes :
        LET calls == sent[i].calls
        IN /\ Cardinality(CallsOf(i, "session")) = 1 /\ Head(calls).op = "session"
           /\ Cardinality(CallsOf(i, "close")) = 1 /\ Last(calls).op = "close"
           /\ CallsOf(i, "commit") # {} <=> CallCompleted(i, "run")
           /\ CallsOf(i, "rollback") # {} <=> (CallRaised(i, "run") \/ CallRaised(i, "commit"))
           /\ \A k \in CallsOf(i, "rollback") :
                k > 1 /\ calls[k - 1].raises /\ calls[k - 1].op \in {"run", "commit"}
           /\ CallCompleted(i, "begin_transaction")
                => /\ CallCompleted(i, "commit") \/ CallCompleted(i, "rollback")
                   /\ ~(CallCompleted(i, "commit") /\ CallCompleted(i, "rollback"))
           /\ sent[i].raised <=> \E k \in 1..Len(calls) : calls[k].raises
           /\ sent[i].raised <=> ~CallCompleted(i, "commit")

\* a delete whose commit raised: the transaction was rolled back, the session
\* closed, and the relationship is still stored
C19_Witness ==
    /\ pc = "done" /\ call.name = "delete_relationship" /\ Len(sent) = 2
    /\ sent[2].calls = <<DriverCall("session", FALSE),
                         DriverCall("begin_transaction", FALSE),
                         DriverCall("run", FALSE), DriverCall("commit", TRUE),
                         DriverCall("rollback", FALSE), DriverCall("close", FALSE)>>
    /\ ~result.success
    /\ RelsMatching(call.source_id, call.relationship_type, call.target_id) # {}

\* ---- C20 ------------------------------------------------------------------
\* the kind violation each declared kind is reported with
KindViolation ==
    [string |-> "should be a string", number |-> "should be a number",
     boolean |-> "should be a boolean", array |-> "should be an array",
     object |-> "should be an object"]

\* C20: when a validator call returns its result, every payload value of a
\* declared property whose kind differs from the declared kind is reported
\* with a kind violation for that property (a boolean given for a number
\* included), and a value of the declared kind is reported with none
C20_KindMismatchReported ==
    (v.pc = "done" /\ CheckedTypeRegistered /\ ~v.res.raised)
    => \A item \in Range(v.properties) :
         (HasProp(CheckedProperties, item.key)
          /\ DefType(GetProp(CheckedProperties, item.key)) \in DOMAIN KindViolation)
         => LET k == DefType(GetProp(CheckedProperties, item.key))
            IN (item.val.k # k)
               <=> Err(KindViolation[k], item.key) \in Range(v.res.errors)

\* ---- C21 ------------------------------------------------------------------
\* C21: the depth bound find_path and find_paths write into the path query
\* lies in 1..10: a max_depth in 1..10 is used unchanged, and one that is
\* <= 0 or > 10 is replaced by 5 in find_path and by 3 in find_paths
C21_DepthBounded ==
    call.name \in {"find_path", "find_paths"}
    => LET default == IF call.name = "find_path" THEN 5 ELSE 3
           bound == IF call.depth_arg \in 1..10 THEN call.depth_arg ELSE default
       IN /\ SentDepth = {bound}
          /\ bound \in 1..10
          /\ \A x \in Range(sent[1].text) :
                x.arg = "max_depth" => x = FInt("max_depth", bound)

\* find_paths asked for depth 11 sent its query with the bound 3
C21_Witness ==
    /\ pc = "done" /\ call.name = "find_paths" /\ call.depth_arg = 11
    /\ Has(sent[1].text, FInt("max_depth", 3))
    /\ Has(sent[1].text, QryText.AllShortestPaths)

\* ---- C22 ------------------------------------------------------------------
\* the name a property key is returned under for the tier: <<base>> for a key
\* with the suffix of the tier, <<>> for a key with the suffix of another
\* tier, <<key>> for every other key
ProjectedName(prop, tier) ==
    LET parts == NameParts[prop]
    IN IF Len(parts) > 1 /\ Last(parts) = TierSuffix(tier)
       THEN <<WithoutSuffix(prop)>>
       ELSE IF Len(parts) > 1 /\ Last(parts) \in {"_l1", "_l2", "_l3"} THEN <<>>
       ELSE <<prop>>

\* C22: get_entity_with_tier treats a tier outside L1, L2, L3 as L1; it
\* returns a key with the suffix of the tier under its base name, leaves out
\* a key with the suffix of another tier, returns every other key unchanged,
\* and when two keys come out under the same name the later one of the
\* entity gives the value
C22_TierProjection ==
    (call.name = "get_entity_with_tier" /\ pc = "done" /\ result.success)
    => LET tier == IF call.tier_arg \in {"L1", "L2", "L3"} THEN call.tier_arg ELSE "L1"
           entity == sent[1].rows[1].e
           under(name) == {i \in 1..Len(entity) :
                              ProjectedName(entity[i].key, tier) = <<name>>}
           last(name) == CHOOSE i \in under(name) : \A j \in under(name) : j <= i
           returned == result.properties
       IN /\ result.tier = tier
          /\ Keys(returned)
               = {name \in DOMAIN NameParts : under(name) # {}}
          /\ \A i, j \in 1..Len(returned) : returned[i].key = returned[j].key => i = j
          /\ \A i \in 1..Len(returned) :
                returned[i].val = entity[last(returned[i].key)].val

\* a symbol read at L2: summary_l2 took the place of the plain summary, and
\* summary_l2_l1 was left out
C22_Witness ==
    /\ call.name = "get_entity_with_tier" /\ pc = "done" /\ result.success
    /\ call.tier_arg = "L2"
    /\ sent[1].rows[1].e = SymbolNode(call.entity_id).props
    /\ GetKey(result.properties, "summary") = StrVal("Leibniz notation")
    /\ ~HasKey(result.properties, "summary_l2_l1")
    /\ HasKey(result.properties, "notation")

\* ---- C23 ------------------------------------------------------------------
\* the relationships of the store a directed listing for entity E selects
Selected(E, relationship_type, direction) ==
    {r \in rels :
        /\ relationship_type # "" => r.type = relationship_type
        /\ direction = "outgoing" => r.source = E
        /\ direction = "incoming" => r.target = E
        /\ direction = "both" => (r.source = E \/ r.target = E)}

\* C23: for an entity id E list_relationships selects the relationships with
\* source E (outgoing), with target E (incoming) or with either (both, and
\* any unrecognised direction), restricted to relationship_type when one is
\* given; every text it sends is one the store accepts, the one for both a
\* union of two complete queries; the count query and the page query select
\* by the same patterns
C23_DirectedListing ==
    (call.name = "list_relationships" /\ call.entity_id # "")
    => LET direction == IF call.direction_arg \in {"outgoing", "incoming", "both"}
                        THEN call.direction_arg ELSE "both"
           selected == Selected(call.entity_id, call.relationship_type, direction)
           left == Cardinality(selected) - call.skip
       IN /\ \A i \in 1..Len(sent) : ~StoreRejects(sent[i].text, sent[i].params)
          /\ Len(sent) = 2
                => SubSeq(sent[1].text, 1, Len(sent[1].text) - 1)
                     = SubSeq(sent[2].text, 1, Len(sent[2].text) - 5)
          /\ (pc = "done" /\ result.success)
                => /\ \A i \in 1..Len(result.relationships) :
                        \E r \in selected :
                            /\ result.relationships[i].source_id = r.source
                            /\ result.relationships[i].relationship_type = r.type
                            /\ result.relationships[i].target_id = r.target
                            /\ result.relationships[i].properties = r.props
                   /\ Len(result.relationships)
                        = IF left <= 0 THEN 0
                          ELSE IF left < call.page_size THEN left ELSE call.page_size

\* ---- C24 ------------------------------------------------------------------
\* the term is a case-insensitive substring of one of the four searched
\* properties of the entity
TermMatches(entity, term) ==
    \E prop \in {"name", "description", "notation", "domain"} :
        /\ HasKey(entity, prop)
        /\ Contains(ToLower(GetKey(entity, prop).s), ToLower(term))

C25_BlankIdentifierRejected ==
    (\/ call.name = "get_relationship" /\ call.source_id \in {"", " "}
     \/ call.name = "search_entities" /\ call.query \in {"", " "})
    => /\ sent = <<>>
       /\ pc = "done" => ~result.success

\* ---- C26 ------------------------------------------------------------------
\* C26: a construction seeds and persists the built-in defaults of a
\* document only when that document is absent, each document on its own; a
\* document that exists is loaded as it is and never written; after a
\* construction both documents exist and hold the definitions in memory;
\* a second construction yields the definitions of the first
C26_Bootstrap ==
    LET constructed == boot.pc = "idle" /\ boot.constructed >= 1
        defaults == [entity_types |-> DefaultEntityTypes,
                     relationship_types |-> DefaultRelationshipTypes]
        memory == [entity_types |-> entity_types,
                   relationship_types |-> relationship_types]
        held == [entity_types |-> {DefaultEntityTypes, LoadedEntityTypes, <<>>},
                 relationship_types |->
                    {DefaultRelationshipTypes, LoadedRelationshipTypes, <<>>}]
    IN /\ \A f \in DOMAIN schema_dir :
            /\ boot.initial[f].exists => schema_dir[f] = boot.initial[f]
            /\ (constructed /\ boot.initial[f].exists)
                  => \E t \in held[f] :
                        boot.initial[f] = File(JsonDump(t)) /\ memory[f] = t
            /\ (~boot.initial[f].exists /\ schema_dir[f].exists)
                  => schema_dir[f] = File(JsonDump(defaults[f]))
            /\ constructed
                  => /\ schema_dir[f].exists
                     /\ schema_dir[f] = File(JsonDump(memory[f]))
                     /\ ~boot.initial[f].exists => memory[f] = defaults[f]
       /\ (constructed /\ boot.constructed >= 2) => memory = boot.first

\* a second construction over a directory that held only a relationship-type
\* document: the entity types are the seeded defaults, the relationship
\* types the loaded ones
C26_Witness ==
    /\ boot.pc = "idle" /\ boot.constructed = 2
    /\ ~boot.initial.entity_types.exists
    /\ boot.initial.relationship_types = File(JsonDump(LoadedRelationshipTypes))
    /\ entity_types = DefaultEntityTypes
    /\ relationship_types = LoadedRelationshipTypes
    /\ schema_dir.entity_types = File(JsonDump(DefaultEntityTypes))

\* ---- C27 ------------------------------------------------------------------
\* C27: when the write step of create_relationship ends in a success
\* envelope, the store holds, as that write commits, a relationship with the
\* returned id and type from the source to the target, also when another
\* client deleted an endpoint after the existence reads
C27_CreatedRelationshipStored ==
    [][(pc = "cr_write" /\ pc' = "done" /\ result'.success)
       => \E r \in rels' :
            /\ r.id = result'.relationship_id
            /\ r.type = result'.relationship_type
            /\ r.source = result'.source_id
            /\ r.target = result'.target_id]_vars

\* ---- C28 ------------------------------------------------------------------
\* C28: a response of list_entities or list_relationships holds at most
\* page_size items and at most total_count items, and exactly the items the
\* reported total_count leaves for the reported page, a full page when
\* has_next is reported, also when other clients change the store between
\* the count read and the page read
C28_PageConsistentWithCount ==
    (call.name \in {"list_entities", "list_relationships"} /\ pc = "done"
     /\ result.success)
    => LET items == IF call.name = "list_entities" THEN result.entities
                    ELSE result.relationships
           m == result.pagination
           left == m.total_count - m.page * m.page_size
       IN /\ Len(items) <= m.page_size
          /\ Len(items) <= m.total_count
          /\ Len(items) = IF left <= 0 THEN 0
                          ELSE IF left < m.page_size THEN left ELSE m.page_size
          /\ m.has_next => Len(items) = m.page_size
          /\ m.total_pages = 0 => items = <<>>

\* ---- C29 ------------------------------------------------------------------
\* C29: when the write step of delete_relationship ends in success, no
\* relationship of the type is left from the source to the target, however
\* many there were; a get_relationship the store answers while none is
\* stored returns not-found; a delete_relationship the store answers while
\* none is stored returns not-found and goes on to no write
C29_DeleteThenNotFound ==
    [][/\ (pc = "dr_write" /\ pc' = "done" /\ result'.success)
            => ~\E r \in rels' : /\ r.source = call.source_id
                                 /\ r.type = call.relationship_type
                                 /\ r.target = call.target_id
       /\ (/\ pc = "idle" /\ call'.name \in {"get_relationship", "delete_relationship"}
           /\ ~sent'[1].raised
           /\ RelsMatching(call'.source_id, call'.relationship_type,
                           call'.target_id) = {})
            => /\ pc' = "done"
               /\ result' = Failed("Relationship not found")
               /\ \A i \in 1..Len(sent') : ~sent'[i].write]_vars

\* a delete that found two parallel relationships and left none
C29_Witness ==
    /\ call.name = "delete_relationship" /\ pc = "done" /\ result.success
    /\ Len(sent) = 2 /\ Len(sent[1].rows) = 2
    /\ sent[2].write /\ ~sent[2].raised
    /\ RelsMatching(call.source_id, call.relationship_type, call.target_id) = {}

\* ---- C30 ------------------------------------------------------------------
\* C30: once a close() has returned and until connect() is called again the
\* field _driver is empty, is_connected() returns False, session(),
\* transaction(), execute_query() and execute_write_query() raise, and a
\* further close() returns, each without a call on the driver; every session
\* opened by session() is closed when its block is left, by return or by
\* exception
C30_ConnectionLifecycle ==
    /\ conn.closed => conn.driver = "None"
    /\ (conn.was_closed /\ conn.op # "connect")
          => /\ conn.calls = <<>> /\ conn.pc = "idle"
             /\ conn.op = "is_connected" => conn.outcome = "False"
             /\ conn.op \in {"session", "transaction", "execute_query",
                             "execute_write_query"} => conn.outcome = "raised"
             /\ conn.op = "close" => (conn.outcome = "returned" /\ conn.closed)
    /\ conn.sessions = IF conn.pc = "idle" THEN 0 ELSE 1
    /\ conn.pc = "idle"
          => \A k \in 1..Len(conn.calls) :
                conn.calls[k] = DriverCall("session", FALSE)
                    => /\ k < Len(conn.calls)
                       /\ Last(conn.calls) = DriverCall("close", FALSE)

\* an execute_write_query after a close(): it raised and made no call on the
\* driver
C30_Witness ==
    /\ conn.op = "execute_write_query" /\ conn.was_closed /\ conn.closed
    /\ conn.pc = "idle" /\ conn.outcome = "raised" /\ conn.calls = <<>>
    /\ conn.driver = "None" /\ conn.drivers = 0

====
